---- MODULE Spec2Model ----
(***************************************************************************)
(* A model of the DIO multiplier pipeline:                                 *)
(*   - backend/app/core/calculator.py : DIOCalculator (load + calculate)   *)
(*   - calculate_multipliers_python.py: the multiplier build script        *)
(*   - calculate_real_multipliers.py  : the earlier flow aggregation       *)
(*   - merge_energy_multipliers.py    : the in-place merge of Energy       *)
(*                                                                         *)
(* Numbers.  Python floats are modelled as exact rationals [num, den] in   *)
(* lowest terms with den > 0, so amount / 1000, the GWP weights, 264.172   *)
(* and the matrix inverse are computed, not assumed.  Floating rounding    *)
(* error is therefore outside the model.                                   *)
(*                                                                         *)
(* Identifiers.  A FlowID / ProcessID such as "336411/US" is the record    *)
(* [base |-> 336411, suffix |-> "/US"]; str.replace('/US', '') keeps the   *)
(* base.  Bare sector codes are fixed-width digit strings, so Python's     *)
(* string order on them is the numeric order of the bases.                 *)
(***************************************************************************)
EXTENDS Integers, Sequences, FiniteSets, TLC

\* ------------------------------------------------------------------ bounds
\* Largest number of entries of a spending map passed to calculate.
MaxSpend == 2
\* Largest length of an explicit impact_categories list.
MaxCats == 2
\* Largest number of calculate calls in progress at once.
MaxCalls == 2
\* Largest number of times the API process reads multipliers.json.
MaxLoads == 2
\* Largest number of rows of the transactions file.
MaxTx == 2
\* Largest number of rows of the flows file.
MaxFlows == 3
\* Largest length the 'notes' list of multipliers.json grows to.
MaxNotes == 1

\* ------------------------------------------------------------- rationals
Abs(x) == IF x < 0 THEN -x ELSE x

RECURSIVE GCD(_, _)
GCD(a, b) == IF b = 0 THEN a ELSE GCD(b, a % b)

\* The rational n/d in lowest terms, d > 0 (d # 0 required).
Rat(n, d) ==
  LET g == GCD(Abs(n), Abs(d))
      s == IF d < 0 THEN -1 ELSE 1
  IN  [num |-> (s * n) \div g, den |-> (s * d) \div g]

RInt(n) == [num |-> n, den |-> 1]
RZero == RInt(0)
RAdd(a, b) == Rat(a.num * b.den + b.num * a.den, a.den * b.den)
RSub(a, b) == Rat(a.num * b.den - b.num * a.den, a.den * b.den)
RMul(a, b) == Rat(a.num * b.num, a.den * b.den)
\* a / b for b # 0.
RDiv(a, b) == Rat(a.num * b.den, a.den * b.num)
RIsZero(a) == a.num = 0

\* ------------------------------------------------------ generic helpers
\* dict.get(key, default) on a function used as a dict.
Get(d, key, default) == IF key \in DOMAIN d THEN d[key] ELSE default

\* The set of elements of a sequence.
Range(s) == {s[i] : i \in DOMAIN s}

\* Sequences over S of length at most n.
SeqUpTo(S, n) == UNION {[1..k -> S] : k \in 0..n}

\* dict.update(): b's entries override a's.
DictUpdate(a, b) ==
  [k \in (DOMAIN a) \cup (DOMAIN b) |-> IF k \in DOMAIN b THEN b[k] ELSE a[k]]

\* A sector name, a string.
Name(text) == [text |-> text]

\* A str is the sequence of its characters.
UpperCase == <<"A", "B", "C", "D", "E", "F", "G", "H", "I", "J", "K", "L", "M", "N", "O", "P", "Q", "R", "S", "T", "U", "V", "W", "X", "Y", "Z">>
LowerCase == <<"a", "b", "c", "d", "e", "f", "g", "h", "i", "j", "k", "l", "m", "n", "o", "p", "q", "r", "s", "t", "u", "v", "w", "x", "y", "z">>
Digits == <<"0", "1", "2", "3", "4", "5", "6", "7", "8", "9">>

\* str.lower()
Lower(s) ==
  [i \in DOMAIN s |->
     IF \E k \in DOMAIN UpperCase : UpperCase[k] = s[i]
       THEN LowerCase[CHOOSE k \in DOMAIN UpperCase : UpperCase[k] = s[i]]
       ELSE s[i]]

\* kw in s
Contains(s, kw) ==
  \E i \in 0..(Len(s) - Len(kw)) : \A j \in 1..Len(kw) : s[i + j] = kw[j]

\* ------------------------------------------------ the multipliers file
\* A JSON document in memory: [meta |-> the top-level keys other than
\* 'sectors' (a dict), sectors |-> the 'sectors' object as the sequence of
\* its [code, values] members in file order (Python dicts keep that order)].
\* On disk the file is the sequence of chunks written so far: one head chunk
\* (every top-level key before 'sectors', the last key of the document),
\* one chunk per sector, one end chunk (the closing braces).
Serialize(data) ==
  <<[kind |-> "head", meta |-> data.meta]>>
  \o [i \in 1..Len(data.sectors) |->
        [kind |-> "sector", code |-> data.sectors[i].code,
         values |-> data.sectors[i].values]]
  \o <<[kind |-> "end"]>>

\* Whether json.load accepts the text: a complete document and nothing else.
IsCompleteJson(text) ==
  /\ Len(text) >= 2
  /\ text[1].kind = "head"
  /\ text[Len(text)].kind = "end"
  /\ \A i \in 2..(Len(text) - 1) : text[i].kind = "sector"

\* json.load of a complete text.
ParseJson(text) ==
  [meta |-> text[1].meta,
   sectors |-> [i \in 1..(Len(text) - 2) |->
                  [code |-> text[i + 1].code, values |-> text[i + 1].values]]]

\* data.get('sectors', {}) as a dict: a later member with the same key wins.
SectorsDict(data) ==
  [c \in {data.sectors[i].code : i \in DOMAIN data.sectors} |->
     LET last == CHOOSE i \in DOMAIN data.sectors :
                   /\ data.sectors[i].code = c
                   /\ \A j \in DOMAIN data.sectors :
                        data.sectors[j].code = c => j <= i
     IN  data.sectors[last].values]

\* ------------------------------------------------------- DIOCalculator
DefaultUnits ==
  [GHG |-> "kg CO2 eq", Energy |-> "MJ", Water |-> "gallons", Land |-> "m2-year"]

\* The name a sector gets when the file gives none: f'Sector {code}'.
DefaultSectorName(code) == [text |-> "Sector", code |-> code]

\* DIOCalculator._load_multipliers on a readable, parseable file: the three
\* dicts of the instance.
LoadMultipliers(data) ==
  LET sd == SectorsDict(data)
  IN  [multipliers |->
         [c \in DOMAIN sd |->
            [GHG |-> Get(sd[c], "GHG", RZero),
             Energy |-> Get(sd[c], "Energy", RZero),
             Water |-> Get(sd[c], "Water", RZero),
             Land |-> Get(sd[c], "Land", RZero)]],
       sector_names |->
         [c \in DOMAIN sd |-> Get(sd[c], "name", DefaultSectorName(c))],
       units |->
         IF "units" \in DOMAIN data.meta
           THEN DictUpdate(DefaultUnits, data.meta["units"])
           ELSE DefaultUnits]

\* A variant of the default list: Energy before GHG.
DefaultCategories_EnergyFirst == <<"Energy", "GHG", "Water", "Land">>

\* impact_categories = ['GHG', 'Energy', 'Water', 'Land'] when None is passed.
DefaultCategories == <<"GHG", "Energy", "Water", "Land">>

\* A variant of EffectiveCategories: a category named twice is kept once.
EffectiveCategories_Unique(ic) ==
  IF ic.is_none THEN DefaultCategories
  ELSE SelectSeq([i \in DOMAIN ic.value |->
                    IF \E j \in 1..(i - 1) : ic.value[j] = ic.value[i]
                      THEN "" ELSE ic.value[i]],
                 LAMBDA c : c # "")

\* impact_categories is [is_none |-> TRUE] (None) or a list.
EffectiveCategories(ic) == IF ic.is_none THEN DefaultCategories ELSE ic.value

\* sum(sector_spending.values())
RECURSIVE SumAmounts(_)
SumAmounts(sp) ==
  IF sp = <<>> THEN 0 ELSE sp[1].amount + SumAmounts(Tail(sp))

\* getattr(multipliers, category, 0)
GetAttr(m, category) == IF category \in DOMAIN m THEN m[category] ELSE RZero

\* A variant of SpendingThousands: floor division, amount // 1000.
SpendingThousands_FloorDiv(amount) == RInt(amount \div 1000)

\* amount / 1000
SpendingThousands(amount) == RDiv(RInt(amount), RInt(1000))

\* A variant of Impact: the amount in dollars, not in thousands of dollars.
Impact_PerDollar(m, category, amount) ==
  RMul(GetAttr(m, category), RInt(amount))

\* impact = multiplier * spending_thousands
Impact(m, category, amount) ==
  RMul(GetAttr(m, category), SpendingThousands(amount))

\* The inner loop over impact_categories: total_impacts[category] += impact,
\* once per list position.
RECURSIVE AddImpacts(_, _, _, _)
AddImpacts(totals, m, cats, amount) ==
  IF cats = <<>> THEN totals
  ELSE AddImpacts(
         [totals EXCEPT ![cats[1]] = RAdd(@, Impact(m, cats[1], amount))],
         m, Tail(cats), amount)

_get_category_name(code) ==
  CASE code = "GHG" -> "Greenhouse Gas Emissions"
    [] code = "Energy" -> "Energy Use"
    [] code = "Water" -> "Water Consumption"
    [] code = "Land" -> "Land Use"
    [] OTHER -> code

_get_category_description(code) ==
  CASE code = "GHG" -> "Total CO2 equivalent emissions"
    [] code = "Energy" -> "Total energy consumption"
    [] code = "Water" -> "Total freshwater use"
    [] code = "Land" -> "Total land occupation"
    [] OTHER -> ""

\* One entry of an 'impacts' list.
ImpactEntry(cat, value, units_) ==
  [category |-> _get_category_name(cat), value |-> value,
   unit |-> units_[cat], description |-> _get_category_description(cat)]

\* sector_breakdown[sector_code] for a known sector.
BreakdownEntry(calc, code, amount, cats) ==
  [name |-> Get(calc.sector_names, code, DefaultSectorName(code)),
   spending |-> amount,
   impacts |-> [i \in 1..Len(cats) |->
                  ImpactEntry(cats[i],
                              Impact(calc.multipliers[code], cats[i], amount),
                              calc.units)]]

\* A variant of SectorLoop: "or use default multipliers" for an unknown
\* sector, which then gets a breakdown entry with zero impacts.
RECURSIVE SectorLoop_DefaultForUnknown(_, _, _, _)
SectorLoop_DefaultForUnknown(calc, sp, cats, acc) ==
  IF sp = <<>> THEN acc
  ELSE LET known == sp[1].code \in DOMAIN calc.multipliers
           m == IF known THEN calc.multipliers[sp[1].code]
                ELSE [GHG |-> RZero, Energy |-> RZero,
                      Water |-> RZero, Land |-> RZero]
           withM == [calc EXCEPT !.multipliers =
                       [c \in (DOMAIN calc.multipliers) \cup {sp[1].code} |->
                          IF c = sp[1].code THEN m ELSE calc.multipliers[c]]]
       IN  SectorLoop_DefaultForUnknown(calc, Tail(sp), cats,
             [totals |-> AddImpacts(acc.totals, m, cats, sp[1].amount),
              breakdown |->
                [c \in (DOMAIN acc.breakdown) \cup {sp[1].code} |->
                   IF c = sp[1].code
                     THEN BreakdownEntry(withM, sp[1].code, sp[1].amount, cats)
                     ELSE acc.breakdown[c]]])

\* A variant of SectorLoop: one breakdown entry per sector of the table,
\* with spending.get(code, 0), instead of one per known spending entry.
SectorLoop_AllSectors(calc, sp, cats, acc) ==
  LET amountOf(c) ==
        IF \E i \in DOMAIN sp : sp[i].code = c
          THEN sp[CHOOSE i \in DOMAIN sp : sp[i].code = c].amount
          ELSE 0
      codes == DOMAIN calc.multipliers
      RECURSIVE Fold(_, _)
      Fold(S, t) ==
        IF S = {} THEN t
        ELSE LET c == CHOOSE x \in S : \A y \in S : x <= y
             IN  Fold(S \ {c},
                      AddImpacts(t, calc.multipliers[c], cats, amountOf(c)))
  IN  [totals |-> Fold(codes, acc.totals),
       breakdown |->
         [c \in codes |-> BreakdownEntry(calc, c, amountOf(c), cats)]]

\* The loop over sector_spending.items(): acc is [totals, breakdown].
RECURSIVE SectorLoop(_, _, _, _)
SectorLoop(calc, sp, cats, acc) ==
  IF sp = <<>> THEN acc
  ELSE IF sp[1].code \notin DOMAIN calc.multipliers
    THEN SectorLoop(calc, Tail(sp), cats, acc)
    ELSE SectorLoop(calc, Tail(sp), cats,
           [totals |-> AddImpacts(acc.totals, calc.multipliers[sp[1].code],
                                  cats, sp[1].amount),
            breakdown |->
              [c \in (DOMAIN acc.breakdown) \cup {sp[1].code} |->
                 IF c = sp[1].code
                   THEN BreakdownEntry(calc, sp[1].code, sp[1].amount, cats)
                   ELSE acc.breakdown[c]]])

\* DIOCalculator.calculate.  self.units[cat] raises KeyError for a category
\* that is no key of units: in the breakdown of the first known sector, or
\* at the latest when the total impacts are formatted.
calculate(calc, sector_spending, impact_categories) ==
  LET cats == EffectiveCategories(impact_categories)
      acc == SectorLoop(calc, sector_spending, cats,
               [totals |-> [c \in Range(cats) |-> RZero],
                breakdown |-> [c \in {} |-> 0]])
  IN  IF \E i \in DOMAIN cats : cats[i] \notin DOMAIN calc.units
        THEN [status |-> "error", error |-> "KeyError"]
        ELSE [status |-> "ok",
              total_spending |-> SumAmounts(sector_spending),
              impacts |-> [i \in 1..Len(cats) |->
                             ImpactEntry(cats[i], acc.totals[cats[i]],
                                         calc.units)],
              sector_breakdown |-> acc.breakdown,
              model_version |-> "DIO v2.0"]

\* ------------------------------------------------------------ matrices
\* An n x n (or 4 x n) numpy array is a function on pairs of 0-based indices.
Idx(n) == 0..(n - 1)
ZeroMatrix(r, c) == [ij \in Idx(r) \X Idx(c) |-> RZero]
\* np.eye(n)
Eye(n) == [ij \in Idx(n) \X Idx(n) |-> IF ij[1] = ij[2] THEN RInt(1) ELSE RZero]
\* X - Y
MatSub(X, Y) == [ij \in DOMAIN X |-> RSub(X[ij], Y[ij])]

\* The sequence s without its k-th element.
Without(s, k) == [i \in 1..(Len(s) - 1) |-> IF i < k THEN s[i] ELSE s[i + 1]]

\* The determinant of the submatrix of X on the rows and columns listed
\* (Laplace expansion along the first listed row).
RECURSIVE DetOn(_, _, _)
DetOn(X, rows, cols) ==
  IF rows = <<>> THEN RInt(1)
  ELSE LET term(k) ==
             RMul(RMul(RInt(IF k % 2 = 1 THEN 1 ELSE -1),
                       X[<<rows[1], cols[k]>>]),
                  DetOn(X, Tail(rows), Without(cols, k)))
           RECURSIVE Acc(_)
           Acc(k) == IF k = 0 THEN RZero ELSE RAdd(Acc(k - 1), term(k))
       IN  Acc(Len(cols))

IdxSeq(n) == [i \in 1..n |-> i - 1]
Det(X, n) == DetOn(X, IdxSeq(n), IdxSeq(n))

\* The inverse of a non-singular n x n matrix: adjugate over determinant.
Inv(X, n) ==
  LET d == Det(X, n)
      cof(i, j) ==
        RMul(RInt(IF (i + j) % 2 = 0 THEN 1 ELSE -1),
             DetOn(X, Without(IdxSeq(n), i + 1), Without(IdxSeq(n), j + 1)))
  IN  [ij \in Idx(n) \X Idx(n) |-> RDiv(cof(ij[2], ij[1]), d)]

\* The Moore-Penrose pseudo-inverse of a singular matrix of rank at most 1
\* (every singular matrix with n <= 2): 0 for the zero matrix, otherwise the
\* transpose over the squared Frobenius norm.
PInv(X, n) ==
  LET RECURSIVE SumSq(_)
      SumSq(S) ==
        IF S = {} THEN RZero
        ELSE LET ij == CHOOSE e \in S : TRUE
             IN  RAdd(RMul(X[ij], X[ij]), SumSq(S \ {ij}))
      f == SumSq(DOMAIN X)
  IN  [ij \in Idx(n) \X Idx(n) |->
         IF RIsZero(f) THEN RZero ELSE RDiv(X[<<ij[2], ij[1]>>], f)]

\* np.linalg.inv raises LinAlgError exactly when elimination meets a zero
\* pivot: in exact arithmetic, when the determinant is 0.
IsSingular(X, n) == RIsZero(Det(X, n))

\* B @ L for a rows x n matrix B and an n x n matrix L.
MatMul(B, L, rows, n) ==
  LET RECURSIVE Dot(_, _, _)
      Dot(c, j, k) ==
        IF k < 0 THEN RZero
        ELSE RAdd(Dot(c, j, k - 1), RMul(B[<<c, k>>], L[<<k, j>>]))
  IN  [cj \in Idx(rows) \X Idx(n) |-> Dot(cj[1], cj[2], n - 1)]

\* round(x, 2): to the nearest hundredth, ties to the even hundredth.
Round2(x) ==
  LET p == x.num * 100
      q == p \div x.den
      r == p % x.den
      n == IF 2 * r > x.den THEN q + 1
           ELSE IF 2 * r < x.den THEN q
           ELSE IF q % 2 = 0 THEN q ELSE q + 1
  IN  Rat(n, 100)

\* ------------------------------------------------------------------ state
VARIABLES
  multipliers_json,   \* backend/app/data/multipliers.json: the chunks on disk
  calculator,         \* the DIOCalculator instance: multipliers, sector_names, units
  request,            \* the arguments of the latest calculate call
  result,             \* what that call returned, or that it raised
  a_matrix_csv,       \* DIO-updated/data/A_Matrix_DIO.csv: the transaction rows
  b_matrix_csv,       \* DIO-updated/data/B_Matrix_DIO.csv: the flow rows
  pc,                 \* where the script being run from the shell stands
  ns,                 \* the module-level names of the script being run
  first_run,          \* what the first completed multiplier build produced,
                      \* and whether a later build has completed since
  io_call,            \* the latest call of get_io_multiplier and its result
  calls               \* the calculate calls in progress, with their locals

calcVars == <<calculator, request, result, io_call, calls>>
buildVars == <<a_matrix_csv, b_matrix_csv, pc, ns, first_run>>
vars == <<multipliers_json, calculator, request, result,
          a_matrix_csv, b_matrix_csv, pc, ns, first_run, io_call, calls>>

\* ------------------------------------ calculate_multipliers_python.py
\* 100-year global warming potentials.
GWP_CH4 == 28
GWP_N2O == 265
\* A conversion factor cut to whole gallons.
GallonsPerM3_Whole == Rat(264, 1)
\* Gallons per cubic metre, 264.172.
GallonsPerM3 == Rat(264172, 1000)

\* row['FlowID'].replace('/US', '')
StripUS(id) == id.base

\* A display name as the transactions file gives it: label, then " (code)"
\* when code_in_parens, then " - US" when us.  The cleaning keeps what comes
\* before '(' (stripped), and removes ' - US': in every case the label.
CleanName(raw) ==
  LET a == IF raw.code_in_parens
             THEN [raw EXCEPT !.code_in_parens = FALSE, !.us = FALSE]
             ELSE raw
      b == IF a.us THEN [a EXCEPT !.us = FALSE] ELSE a
  IN  Name(b.label)

\* a_matrix_df[['FlowID', 'Flow']].drop_duplicates(): the first occurrence of
\* each (FlowID, Flow) pair, in row order.
DropDuplicates(rows) ==
  LET pair(i) == <<rows[i].FlowID, rows[i].Flow>>
      firsts == {i \in DOMAIN rows : \A j \in 1..(i - 1) : pair(j) # pair(i)}
      RECURSIVE Build(_)
      Build(i) ==
        IF i > Len(rows) THEN <<>>
        ELSE IF i \in firsts THEN <<rows[i]>> \o Build(i + 1)
        ELSE Build(i + 1)
  IN  Build(1)

\* Step 2: sector_info[sector_code] = {...} for each distinct pair, in order;
\* a later pair with the same bare code replaces the earlier entry.
RECURSIVE SectorInfoLoop(_, _)
SectorInfoLoop(pairs, info) ==
  IF pairs = <<>> THEN info
  ELSE LET code == StripUS(pairs[1].FlowID)
           entry == [code |-> code, name |-> CleanName(pairs[1].Flow),
                     full_id |-> pairs[1].FlowID]
       IN  SectorInfoLoop(Tail(pairs),
             [c \in (DOMAIN info) \cup {code} |->
                IF c = code THEN entry ELSE info[c]])

BuildSectorInfo(rows) ==
  SectorInfoLoop(DropDuplicates(rows), [c \in {} |-> 0])

\* A sector code is a str of digits; the model writes it as the integer with
\* those decimal digits.
RECURSIVE DecimalDigits(_)
DecimalDigits(code) ==
  IF code < 10 THEN <<code>>
  ELSE Append(DecimalDigits(code \div 10), code % 10)

\* s < t on str: at the first position where they differ, or s a proper
\* prefix of t.
StrLess(s, t) ==
  \/ /\ Len(s) < Len(t)
     /\ \A i \in 1..Len(s) : s[i] = t[i]
  \/ \E k \in 1..Len(s) :
       /\ k <= Len(t)
       /\ \A i \in 1..(k - 1) : s[i] = t[i]
       /\ s[k] < t[k]

\* A variant of Sorted: the codes compared as numbers.
RECURSIVE Sorted_Numeric(_)
Sorted_Numeric(S) ==
  IF S = {} THEN <<>>
  ELSE LET m == CHOOSE x \in S : \A y \in S : x <= y
       IN  <<m>> \o Sorted_Numeric(S \ {m})

\* sorted(sector_info.keys()): ascending order of the code strings.
RECURSIVE Sorted(_)
Sorted(S) ==
  IF S = {} THEN <<>>
  ELSE LET m == CHOOSE x \in S :
                  \A y \in S : x = y \/ StrLess(DecimalDigits(x), DecimalDigits(y))
       IN  <<m>> \o Sorted(S \ {m})

\* {code: i for i, code in enumerate(sector_codes)}
SectorToIdx(sector_codes) ==
  [c \in Range(sector_codes) |->
     (CHOOSE i \in DOMAIN sector_codes : sector_codes[i] = c) - 1]

\* A = np.zeros((n_sectors, n_sectors)); process_to_sector = {}
InitialA(n) == ZeroMatrix(n, n)
InitialProcessToSector == [p \in {} |-> 0]

\* A variant of AMatrixLoop: process_to_sector[process_id] is assigned on
\* every row, so a process follows the sector of its latest row.
RECURSIVE AMatrixLoop_LastSeen(_, _, _)
AMatrixLoop_LastSeen(rows, sector_to_idx, st) ==
  IF rows = <<>> THEN st
  ELSE LET process_id == rows[1].ProcessID
           producing_sector == StripUS(rows[1].FlowID)
           amount == rows[1].Amount
           p2s == [p \in (DOMAIN st.process_to_sector) \cup {process_id} |->
                     IF p = process_id THEN producing_sector
                     ELSE st.process_to_sector[p]]
           consuming_sector == p2s[process_id]
           A1 == IF /\ producing_sector \in DOMAIN sector_to_idx
                    /\ consuming_sector \in DOMAIN sector_to_idx
                   THEN [st.A EXCEPT
                           ![<<sector_to_idx[consuming_sector],
                               sector_to_idx[producing_sector]>>] =
                              RAdd(@, amount)]
                   ELSE st.A
       IN  AMatrixLoop_LastSeen(Tail(rows), sector_to_idx,
                                [A |-> A1, process_to_sector |-> p2s])

\* Step 3: the loop over the transaction rows; st is [A, process_to_sector].
RECURSIVE AMatrixLoop(_, _, _)
AMatrixLoop(rows, sector_to_idx, st) ==
  IF rows = <<>> THEN st
  ELSE LET process_id == rows[1].ProcessID
           producing_sector == StripUS(rows[1].FlowID)
           amount == rows[1].Amount
           p2s == IF process_id \notin DOMAIN st.process_to_sector
                    THEN [p \in (DOMAIN st.process_to_sector) \cup {process_id} |->
                            IF p = process_id THEN producing_sector
                            ELSE st.process_to_sector[p]]
                    ELSE st.process_to_sector
           consuming_sector == p2s[process_id]
           A1 == IF /\ producing_sector \in DOMAIN sector_to_idx
                    /\ consuming_sector \in DOMAIN sector_to_idx
                   THEN [st.A EXCEPT
                           ![<<sector_to_idx[consuming_sector],
                               sector_to_idx[producing_sector]>>] =
                              RAdd(@, amount)]
                   ELSE st.A
       IN  AMatrixLoop(Tail(rows), sector_to_idx,
                       [A |-> A1, process_to_sector |-> p2s])

\* a < b on rationals (denominators are positive).
RLess(a, b) == a.num * b.den < b.num * a.den

\* np.count_nonzero(A) and A.max() of a non-empty matrix.
CountNonZero(A) == Cardinality({ij \in DOMAIN A : ~RIsZero(A[ij])})
MatMax(A) ==
  LET m == CHOOSE ij \in DOMAIN A : \A kl \in DOMAIN A : ~RLess(A[ij], A[kl])
  IN  A[m]

\* What step 3 prints about the matrix it built: shape, non-zero elements,
\* sparsity in percent, largest coefficient.  Nothing else about the rows.
AMatrixReport(A, n) ==
  [shape |-> <<n, n>>,
   non_zero |-> CountNonZero(A),
   sparsity |-> RMul(RInt(100), RSub(RInt(1), Rat(CountNonZero(A), n * n))),
   max_coefficient |-> MatMax(A)]

\* What the earlier script prints about its matrix.
RealAMatrixReport(A, n) ==
  [shape |-> <<n, n>>,
   non_zero |-> CountNonZero(A),
   max_coefficient |-> MatMax(A)]

\* Step 4: L = inv(I - A), or pinv(I - A) when inv raises LinAlgError.
Leontief(A, n) ==
  LET X == MatSub(Eye(n), A)
  IN  IF IsSingular(X, n) THEN PInv(X, n) ELSE Inv(X, n)

\* B_process = defaultdict(lambda: defaultdict(float))
InitialBProcess == [p \in {} |-> 0]

\* B_process[process_id][key] += x on the nested defaultdict.
AddTo(bp, process_id, key, x) ==
  LET inner == IF process_id \in DOMAIN bp THEN bp[process_id]
               ELSE [k \in {} |-> RZero]
      inner1 == [k \in (DOMAIN inner) \cup {key} |->
                   IF k = key THEN RAdd(Get(inner, key, RZero), x)
                   ELSE inner[k]]
  IN  [p \in (DOMAIN bp) \cup {process_id} |->
         IF p = process_id THEN inner1 ELSE bp[p]]

\* Step 5: the loop over the flow rows.
RECURSIVE BProcessLoop(_, _)
BProcessLoop(rows, bp) ==
  IF rows = <<>> THEN bp
  ELSE LET process_id == rows[1].ProcessID
           flowable == rows[1].Flowable
           amount == rows[1].Amount
           unit == rows[1].Unit
           bp1 ==
             IF flowable = "Carbon dioxide"
               THEN AddTo(bp, process_id, "GHG_CO2", amount)
             ELSE IF flowable = "Methane"
               THEN AddTo(bp, process_id, "GHG_CH4", RMul(amount, RInt(GWP_CH4)))
             ELSE IF flowable = "Nitrous oxide"
               THEN AddTo(bp, process_id, "GHG_N2O", RMul(amount, RInt(GWP_N2O)))
             ELSE IF flowable = "Water, fresh"
               THEN IF unit = "m3"
                      THEN AddTo(bp, process_id, "Water", RMul(amount, GallonsPerM3))
                      ELSE AddTo(bp, process_id, "Water", amount)
             ELSE bp
       IN  BProcessLoop(Tail(rows), bp1)

\* A combination that leaves nitrous oxide out of GHG.
CombineGHG_WithoutN2O(bp) ==
  [p \in DOMAIN bp |->
     [k \in (DOMAIN bp[p]) \cup {"GHG"} |->
        IF k = "GHG"
          THEN RAdd(Get(bp[p], "GHG_CO2", RZero), Get(bp[p], "GHG_CH4", RZero))
          ELSE bp[p][k]]]

\* "Combine GHG components": B_process[p]['GHG'] = CO2 + CH4 + N2O parts.
CombineGHG(bp) ==
  [p \in DOMAIN bp |->
     [k \in (DOMAIN bp[p]) \cup {"GHG"} |->
        IF k = "GHG"
          THEN RAdd(RAdd(Get(bp[p], "GHG_CO2", RZero),
                         Get(bp[p], "GHG_CH4", RZero)),
                    Get(bp[p], "GHG_N2O", RZero))
          ELSE bp[p][k]]]

AggregateFlows(rows) == CombineGHG(BProcessLoop(rows, InitialBProcess))

categories == <<"GHG", "Energy", "Water", "Land">>

\* A variant of BuildB: the per-gas sums GHG_CO2, GHG_CH4 and GHG_N2O are
\* added to the GHG of the sector on top of the combined GHG.
BuildB_GasesAgain(B_process, process_to_sector, sector_info, sector_codes) ==
  LET n == Len(sector_codes)
      procsOf(code) ==
        {p \in DOMAIN B_process :
           /\ p \in DOMAIN process_to_sector
           /\ process_to_sector[p] = code
           /\ code \in DOMAIN sector_info}
      flowsOf(p, cat) ==
        IF cat = "GHG"
          THEN RAdd(RAdd(Get(B_process[p], "GHG", RZero),
                         Get(B_process[p], "GHG_CO2", RZero)),
                    RAdd(Get(B_process[p], "GHG_CH4", RZero),
                         Get(B_process[p], "GHG_N2O", RZero)))
          ELSE Get(B_process[p], cat, RZero)
      RECURSIVE Sum(_, _)
      Sum(P, cat) ==
        IF P = {} THEN RZero
        ELSE LET p == CHOOSE x \in P : TRUE
             IN  RAdd(flowsOf(p, cat), Sum(P \ {p}, cat))
  IN  [cj \in Idx(4) \X Idx(n) |->
         Sum(procsOf(sector_codes[cj[2] + 1]), categories[cj[1] + 1])]

\* A variant of BuildB: a process is booked on the sector its own id names,
\* not on the one process_to_sector gives.
BuildB_OwnCode(B_process, process_to_sector, sector_info, sector_codes) ==
  LET n == Len(sector_codes)
      procsOf(code) ==
        {p \in DOMAIN B_process : StripUS(p) = code /\ code \in DOMAIN sector_info}
      RECURSIVE Sum(_, _)
      Sum(P, cat) ==
        IF P = {} THEN RZero
        ELSE LET p == CHOOSE x \in P : TRUE
             IN  RAdd(Get(B_process[p], cat, RZero), Sum(P \ {p}, cat))
  IN  [cj \in Idx(4) \X Idx(n) |->
         Sum(procsOf(sector_codes[cj[2] + 1]), categories[cj[1] + 1])]

\* Step 6: sector_flows[sector][cat] += flows.get(cat, 0) over the processes
\* that process_to_sector maps to a sector of sector_info, then
\* B[cat_idx, sector_idx] = sector_flows[sector_code][cat].
BuildB(B_process, process_to_sector, sector_info, sector_codes) ==
  LET n == Len(sector_codes)
      procsOf(code) ==
        {p \in DOMAIN B_process :
           /\ p \in DOMAIN process_to_sector
           /\ process_to_sector[p] = code
           /\ code \in DOMAIN sector_info}
      RECURSIVE Sum(_, _)
      Sum(P, cat) ==
        IF P = {} THEN RZero
        ELSE LET p == CHOOSE x \in P : TRUE
             IN  RAdd(Get(B_process[p], cat, RZero), Sum(P \ {p}, cat))
  IN  [cj \in Idx(4) \X Idx(n) |->
         Sum(procsOf(sector_codes[cj[2] + 1]), categories[cj[1] + 1])]

\* An export that starts from the published file's top-level keys when it
\* can be read, instead of from a literal.
OutputMeta_FromFile ==
  IF IsCompleteJson(multipliers_json) THEN ParseJson(multipliers_json).meta
  ELSE [model_version |-> "DIO v2.0"]

\* The literal the export starts from: every top-level key but 'sectors'.
OutputMeta ==
  [description |-> "DIO v2.0 environmental impact multipliers (CALCULATED FROM SOURCE DATA)",
   note |-> "Total multipliers including direct and indirect supply chain effects. Calculated using M = B * L methodology.",
   methodology |-> "Environmentally-Extended Input-Output Analysis based on EPA DIO v2.0",
   data_sources |-> "EPA GHG Inventory (2016), USGS Water Use (2015), BEA I-O Tables (2012)",
   calculation_date |-> "2026-01-24",
   model_version |-> "DIO v2.0",
   python_implementation |-> TRUE,
   units |->
     [GHG |-> "kg CO2 eq per $1000 spending",
      Energy |-> "MJ per $1000 spending (not available in current data)",
      Water |-> "gallons per $1000 spending",
      Land |-> "m2-year per $1000 spending (not available in current data)"]]

\* str(code): the characters of a code of digits.
CodeStr(code) ==
  [i \in DOMAIN DecimalDigits(code) |-> Digits[DecimalDigits(code)[i] + 1]]

\* The characters of a sector name of the model; f'Sector {code}' for the
\* calculator's default name.
Spell(name) ==
  IF "code" \in DOMAIN name
    THEN <<"S", "e", "c", "t", "o", "r", " ">> \o CodeStr(name.code)
  ELSE CASE name.text = "Farms" ->
              <<"F", "a", "r", "m", "s">>
         [] name.text = "Mills" ->
              <<"M", "i", "l", "l", "s">>
         [] name.text = "Flour mills" ->
              <<"F", "l", "o", "u", "r", " ", "m", "i", "l", "l", "s">>
         [] name.text = "Grain" ->
              <<"G", "r", "a", "i", "n">>
         [] name.text = "Aircraft Manufacturing" ->
              <<"A", "i", "r", "c", "r", "a", "f", "t", " ", "M", "a", "n", "u", "f", "a", "c", "t", "u", "r", "i", "n", "g">>
         [] name.text = "Ship Building and Repairing" ->
              <<"S", "h", "i", "p", " ", "B", "u", "i", "l", "d", "i", "n", "g", " ", "a", "n", "d", " ", "R", "e", "p", "a", "i", "r", "i", "n", "g">>

\* Step 7: the codes and keywords that mark a sector defense-relevant (of
\* the codes, those that are all digits; '33641A' and '33299A' are no code
\* of this model).
defense_naics ==
  {336411, 336412, 336413, 336414, 336611, 336992, 332993, 332994,
   334220, 334290, 334511, 334519, 334413, 541330, 541512, 541715,
   237310, 237990, 541610, 561210, 561499, 721}
defense_keywords ==
  {<<"a", "i", "r", "c", "r", "a", "f", "t">>,
   <<"m", "i", "s", "s", "i", "l", "e">>,
   <<"s", "h", "i", "p">>,
   <<"v", "e", "s", "s", "e", "l">>,
   <<"n", "a", "v", "a", "l">>,
   <<"m", "a", "r", "i", "n", "e">>,
   <<"a", "m", "m", "u", "n", "i", "t", "i", "o", "n">>,
   <<"a", "r", "m", "s">>,
   <<"o", "r", "d", "n", "a", "n", "c", "e">>,
   <<"w", "e", "a", "p", "o", "n">>,
   <<"m", "i", "l", "i", "t", "a", "r", "y">>,
   <<"d", "e", "f", "e", "n", "s", "e">>,
   <<"a", "r", "m", "o", "r", "e", "d">>,
   <<"t", "a", "n", "k">>,
   <<"r", "a", "d", "a", "r">>,
   <<"n", "a", "v", "i", "g", "a", "t", "i", "o", "n">>,
   <<"a", "e", "r", "o", "s", "p", "a", "c", "e">>,
   <<"g", "u", "i", "d", "e", "d", " ", "m", "i", "s", "s", "i", "l", "e">>}

\* is_defense = code in defense_naics, or else any keyword in the name.
is_defense_relevant(code, name) ==
  \/ code \in defense_naics
  \/ \E kw \in defense_keywords : Contains(Lower(Spell(name)), kw)

\* The loop over sector_info.items(): info['is_defense_relevant'] = is_defense.
FlagSectors(sector_info) ==
  [c \in DOMAIN sector_info |->
     [code |-> sector_info[c].code, name |-> sector_info[c].name,
      full_id |-> sector_info[c].full_id,
      is_defense_relevant |-> is_defense_relevant(c, sector_info[c].name)]]

\* Step 7: multipliers_output, one member per code of sector_codes, in order.
MultipliersOutput(meta, sector_codes, sector_to_idx, sector_info, M) ==
  [meta |-> meta,
   sectors |->
     [k \in DOMAIN sector_codes |->
        LET code == sector_codes[k]
            idx == sector_to_idx[code]
            per1000(c) == Round2(RMul(M[<<c, idx>>], RInt(1000)))
        IN  [code |-> code,
             values |-> [name |-> sector_info[code].name,
                         GHG |-> per1000(0), Energy |-> per1000(1),
                         Water |-> per1000(2), Land |-> per1000(3)]]]]

\* -------------------------------------- calculate_real_multipliers.py
\* sorted(a_matrix_df['FlowID'].str.replace('/US', '').unique())
RealSectorCodes(rows) == Sorted({StripUS(rows[i].FlowID) : i \in DOMAIN rows})

\* The A loop of the earlier script: the consuming sector is the ProcessID
\* without '/US' when it has that suffix, and the cell is assigned.
RECURSIVE RealALoop(_, _, _)
RealALoop(rows, sector_to_idx, A) ==
  IF rows = <<>> THEN A
  ELSE LET hasUS == rows[1].ProcessID.suffix = "/US"
           consuming_sector == StripUS(rows[1].ProcessID)
           producing_sector == StripUS(rows[1].FlowID)
           A1 == IF /\ hasUS
                    /\ consuming_sector \in DOMAIN sector_to_idx
                    /\ producing_sector \in DOMAIN sector_to_idx
                   THEN [A EXCEPT ![<<sector_to_idx[consuming_sector],
                                      sector_to_idx[producing_sector]>>] =
                                    rows[1].Amount]
                   ELSE A
       IN  RealALoop(Tail(rows), sector_to_idx, A1)

\* The B loop of the earlier script: as BProcessLoop, but fresh water counts
\* only in m3 or gal.
RECURSIVE RealBLoop(_, _)
RealBLoop(rows, bp) ==
  IF rows = <<>> THEN bp
  ELSE LET process_id == rows[1].ProcessID
           flowable == rows[1].Flowable
           amount == rows[1].Amount
           unit == rows[1].Unit
           bp1 ==
             IF flowable = "Carbon dioxide"
               THEN AddTo(bp, process_id, "GHG_CO2", amount)
             ELSE IF flowable = "Methane"
               THEN AddTo(bp, process_id, "GHG_CH4", RMul(amount, RInt(GWP_CH4)))
             ELSE IF flowable = "Nitrous oxide"
               THEN AddTo(bp, process_id, "GHG_N2O", RMul(amount, RInt(GWP_N2O)))
             ELSE IF flowable = "Water, fresh" /\ unit \in {"m3", "gal"}
               THEN IF unit = "m3"
                      THEN AddTo(bp, process_id, "Water", RMul(amount, GallonsPerM3))
                      ELSE AddTo(bp, process_id, "Water", amount)
             ELSE bp
       IN  RealBLoop(Tail(rows), bp1)

RealAggregateFlows(rows) == CombineGHG(RealBLoop(rows, InitialBProcess))

\* --------------------------------------- merge_energy_multipliers.py
\* energy_multipliers_io.json, loaded.
EnergyData ==
  [calculation_date |-> "2026-01-25",
   sectors |->
     [c \in {111, 336411} |->
        IF c = 111
          THEN [name |-> Name("Farms"), energy_total_mj_per_1000 |-> RInt(5000)]
          ELSE [name |-> Name("Aircraft Manufacturing"),
                energy_total_mj_per_1000 |-> Rat(123456, 10)]]]

\* Whether the loop of merge_energy_data raises KeyError: a member with
\* energy data lacks 'Energy' or 'name', or one without lacks 'name'.
MergeRaises(data, energy_data) ==
  \E i \in DOMAIN data.sectors :
    IF data.sectors[i].code \in DOMAIN energy_data.sectors
      THEN ~({"Energy", "name"} \subseteq DOMAIN data.sectors[i].values)
      ELSE "name" \notin DOMAIN data.sectors[i].values

EnergyNote ==
  [category |-> "Energy",
   description |-> "Energy multipliers calculated from EIA government data with supply chain effects",
   methodology |-> "See ENERGY_METHODOLOGY.md for detailed calculation approach",
   uncertainty |-> "+-30-40% depending on sector data availability"]

\* The document merge_energy_data saves: Energy replaced where the energy
\* data has the sector, metadata updated, one note appended.
MergedData(data, energy_data) ==
  [meta |->
     DictUpdate(data.meta,
       [last_updated |-> energy_data.calculation_date,
        data_sources |->
          [GHG |-> "Cornerstone Supply Chain Factors v1.4.0",
           Energy |-> "EIA MECS 2018, CBECS 2018, AEO 2023",
           Water |-> "EPA USEEIO v2.0", Land |-> "EPA USEEIO v2.0"],
        notes |-> Append(Get(data.meta, "notes", <<>>), EnergyNote)]),
   sectors |->
     [i \in DOMAIN data.sectors |->
        IF data.sectors[i].code \in DOMAIN energy_data.sectors
          THEN [data.sectors[i] EXCEPT !.values =
                  DictUpdate(@,
                    [Energy |-> energy_data.sectors[data.sectors[i].code]
                                  .energy_total_mj_per_1000])]
          ELSE data.sectors[i]]]

\* ------------------------------------------- inputs of the calculator
BuildUnits ==
  [GHG |-> "kg CO2 eq per $1000 spending",
   Energy |-> "MJ per $1000 spending",
   Water |-> "gallons per $1000 spending",
   Land |-> "m2-year per $1000 spending"]

\* A table as create_demo_multipliers.py writes it: 336411 is 2.2 x 1.1 and
\* 336611 is 1.0 x 1.1 times the base multipliers 150, 2500, 3000, 10.
DemoTable ==
  [meta |-> [description |-> "demo", units |-> BuildUnits],
   sectors |->
     <<[code |-> 336411,
        values |-> [name |-> Name("Aircraft Manufacturing"),
                    GHG |-> RInt(363), Energy |-> RInt(6050),
                    Water |-> RInt(7260), Land |-> Rat(121, 5)]],
       [code |-> 336611,
        values |-> [name |-> Name("Ship Building and Repairing"),
                    GHG |-> RInt(165), Energy |-> RInt(2750),
                    Water |-> RInt(3300), Land |-> RInt(11)]]>>]

\* A table without 'units', and with members that lack a name or a category.
SparseTable ==
  [meta |-> [description |-> "sparse"],
   sectors |->
     <<[code |-> 336411,
        values |-> [GHG |-> Rat(90025, 100), Energy |-> RInt(5500),
                    Water |-> RInt(8000)]],
       [code |-> 336611,
        values |-> [name |-> Name("Ship Building and Repairing"),
                    GHG |-> RInt(720), Land |-> RInt(40)]]>>]

SampleTables == {DemoTable, SparseTable}

\* Sector codes a caller spends on: two of the tables' and one of neither.
SpendCodes == {336411, 336611, 999999}
SpendAmounts == {0, 500, 3000}
\* Category names a caller may pass: three of the four, and one that is none.
CategoryNames == {"GHG", "Water", "Land", "Noise"}

\* A dict has one value per key: the (code, amount) items in insertion order.
SpendingMaps ==
  {sp \in SeqUpTo([code : SpendCodes, amount : SpendAmounts], MaxSpend) :
     \A i, j \in DOMAIN sp : i # j => sp[i].code # sp[j].code}

CategoryArgs ==
  {[is_none |-> TRUE, value |-> <<>>]}
  \cup {[is_none |-> FALSE, value |-> l] : l \in SeqUpTo(CategoryNames, MaxCats)}

\* ------------------------------------------------ inputs of the build
\* Identifiers as the files spell them.
Id(base, suffix) == [base |-> base, suffix |-> suffix]
RawName(label, code_in_parens, us) ==
  [label |-> label, code_in_parens |-> code_in_parens, us |-> us]
TxRow(process, flow_id, flow, amount) ==
  [ProcessID |-> process, FlowID |-> flow_id, Flow |-> flow, Amount |-> amount]
FlowRow(process, flowable, amount, unit) ==
  [ProcessID |-> process, Flowable |-> flowable, Amount |-> amount, Unit |-> unit]

Farms == Id(111, "/US")
Mills == Id(222, "/US")
\* A process id that is no sector code.
Plant == Id(900, "")

\* Transaction rows: two sectors, a process first seen buying from either, a
\* coefficient of 1 (which makes I - A singular), a negative correction.
TxRowDomain ==
  {TxRow(Farms, Farms, RawName("Farms", TRUE, TRUE), Rat(1, 5)),
   TxRow(Farms, Mills, RawName("Mills", FALSE, TRUE), Rat(1, 10)),
   TxRow(Mills, Mills, RawName("Mills", FALSE, TRUE), RInt(1)),
   TxRow(Mills, Farms, RawName("Farms", TRUE, TRUE), Rat(-1, 2)),
   TxRow(Plant, Mills, RawName("Flour mills", TRUE, FALSE), Rat(3, 10))}

FlowRowDomain ==
  {FlowRow(Farms, "Carbon dioxide", RInt(2), "kg"),
   FlowRow(Farms, "Methane", RInt(1), "kg"),
   FlowRow(Farms, "Nitrous oxide", Rat(1, 2), "kg"),
   FlowRow(Mills, "Carbon dioxide", RInt(3), "kg"),
   FlowRow(Farms, "Water, fresh", RInt(1), "m3"),
   FlowRow(Farms, "Sulfur dioxide", RInt(5), "kg")}

\* The flow rows of the builds that vary the transactions.
SampleFlows ==
  <<FlowRow(Farms, "Carbon dioxide", RInt(2), "kg"),
    FlowRow(Mills, "Methane", RInt(1), "kg"),
    FlowRow(Farms, "Water, fresh", RInt(1), "m3")>>

\* The transaction rows of the builds that vary the flows.
SampleTransactions ==
  <<TxRow(Farms, Mills, RawName("Mills", FALSE, TRUE), Rat(1, 10)),
    TxRow(Mills, Farms, RawName("Farms", TRUE, TRUE), Rat(1, 5))>>

NoFirstRun == [set |-> FALSE, again |-> FALSE]
\* get_io_multiplier has not been called.
NoIoCall == [called |-> FALSE]
\* No calculate call is in progress.
NoCalls == [k \in {} |-> 0]

\* The script's names before it has assigned any.
EmptyNs ==
  [a_matrix_df |-> <<>>, sector_info |-> <<>>, sector_codes |-> <<>>,
   sector_to_idx |-> <<>>, A |-> <<>>, process_to_sector |-> <<>>,
   L |-> <<>>, B_process |-> <<>>, B |-> <<>>, M |-> <<>>,
   multipliers_output |-> <<>>, merged |-> <<>>, rows_done |-> 0,
   traceback |-> "none"]

\* What is left of a script that ended on an uncaught exception: its
\* traceback on the terminal.
Raised(exception) == [EmptyNs EXCEPT !.traceback = exception]

\* An Amount cell holds a number, or text that float() would reject.
IsNumber(amount) == "num" \in DOMAIN amount
Unparseable == [text |-> "n/a"]

\* How pd.read_csv types the Amount column: float64 when every cell parses;
\* otherwise object, with every cell a str, or (when the file is read in
\* several chunks) with the cells of the clean chunks already floats.
ColumnReadings(rows) ==
  IF \A i \in DOMAIN rows : IsNumber(rows[i].Amount) THEN {"float64"}
  ELSE {"object, all str", "object, mixed"}

\* pd.read_csv: the rows with Amount as the column was typed.
ReadCsv(rows, dtype) ==
  [i \in DOMAIN rows |->
     IF dtype = "object, all str" /\ IsNumber(rows[i].Amount)
       THEN [rows[i] EXCEPT !.Amount = [str_of |-> @]]
       ELSE rows[i]]

\* The A loop raises TypeError: A[i, j] += amount is reached with a str.
ALoopRaises(rows, sector_to_idx) ==
  \E k \in DOMAIN rows :
    LET first == CHOOSE f \in DOMAIN rows :
                   /\ rows[f].ProcessID = rows[k].ProcessID
                   /\ \A g \in 1..(f - 1) : rows[g].ProcessID # rows[k].ProcessID
    IN  /\ ~IsNumber(rows[k].Amount)
        /\ StripUS(rows[k].FlowID) \in DOMAIN sector_to_idx
        /\ StripUS(rows[first].FlowID) \in DOMAIN sector_to_idx

\* The B loop raises TypeError: a += on a float is reached with a str
\* (for methane and nitrous oxide, with the str repeated 28 or 265 times).
BLoopRaises(rows) ==
  \E k \in DOMAIN rows :
    /\ ~IsNumber(rows[k].Amount)
    /\ rows[k].Flowable \in
         {"Carbon dioxide", "Methane", "Nitrous oxide", "Water, fresh"}

\* ---------------------------------------------------------------- Init
\* The calculator has been constructed from a complete multipliers.json.
InitCalc ==
  /\ \E t \in SampleTables :
       /\ multipliers_json = Serialize(t)
       /\ calculator = LoadMultipliers(ParseJson(Serialize(t)))
  /\ request = [called |-> FALSE, sector_spending |-> <<>>,
                impact_categories |-> [is_none |-> TRUE, value |-> <<>>]]
  /\ result = [status |-> "none"]
  /\ a_matrix_csv = <<>>
  /\ b_matrix_csv = <<>>
  /\ pc = "idle"
  /\ ns = EmptyNs
  /\ first_run = NoFirstRun
  /\ io_call = NoIoCall
  /\ calls = NoCalls

\* ------------------------------------------------------------- actions
NoRequest ==
  [called |-> FALSE, sector_spending |-> <<>>,
   impact_categories |-> [is_none |-> TRUE, value |-> <<>>]]

\* One call of DIOCalculator.calculate; it assigns nothing on self.
Calculate(sp, ic) ==
  /\ ~request.called
  /\ request' = [called |-> TRUE, sector_spending |-> sp, impact_categories |-> ic]
  /\ result' = calculate(calculator, sp, ic)
  /\ UNCHANGED <<calculator, multipliers_json, buildVars, io_call, calls>>

\* The caller has taken the returned dict (or the exception): the call's
\* locals are gone and the calculator is ready for the next call.
Return ==
  /\ request.called
  /\ request' = NoRequest
  /\ result' = [status |-> "none"]
  /\ UNCHANGED <<calculator, multipliers_json, buildVars, io_call, calls>>

NextCalc ==
  \/ \E sp \in SpendingMaps, ic \in CategoryArgs : Calculate(sp, ic)
  \/ Return

SpecCalc == InitCalc /\ [][NextCalc]_vars

\* -------------------------------------------------- the build scripts
\* The scripts are run one at a time from a shell; each run is a fresh
\* Python process.
AtShell == pc \in {"idle", "done", "failed", "merged", "real_done"}

InitFiles ==
  /\ multipliers_json = Serialize(DemoTable)
  /\ calculator = LoadMultipliers(DemoTable)
  /\ request = NoRequest
  /\ result = [status |-> "none"]
  /\ pc = "idle"
  /\ ns = EmptyNs
  /\ first_run = NoFirstRun
  /\ io_call = NoIoCall
  /\ calls = NoCalls

\* Builds over varied transaction rows.
InitBuild ==
  /\ InitFiles
  /\ a_matrix_csv \in SeqUpTo(TxRowDomain, MaxTx)
  /\ b_matrix_csv = SampleFlows

\* Builds over varied flow rows.
InitFlows ==
  /\ InitFiles
  /\ a_matrix_csv = SampleTransactions
  /\ b_matrix_csv \in SeqUpTo(FlowRowDomain, MaxFlows)

\* [1/7] pd.read_csv of the transactions.
StartBuild ==
  /\ AtShell
  /\ pc' = "step2"
  /\ \E dtype \in ColumnReadings(a_matrix_csv) :
       ns' = [EmptyNs EXCEPT !.a_matrix_df = ReadCsv(a_matrix_csv, dtype)]
  /\ UNCHANGED <<multipliers_json, a_matrix_csv, b_matrix_csv, first_run, calcVars>>

\* [2/7] sector_info.
Step2_SectorList ==
  /\ pc = "step2"
  /\ ns' = [ns EXCEPT !.sector_info = BuildSectorInfo(ns.a_matrix_df)]
  /\ pc' = "step3"
  /\ UNCHANGED <<multipliers_json, a_matrix_csv, b_matrix_csv, first_run, calcVars>>

\* [3/7] sector_codes, sector_to_idx, A, process_to_sector.  A.max() in the
\* report that follows raises ValueError on a 0 x 0 matrix; the loop raises
\* TypeError when it adds a str to a cell.
Step3_AMatrix ==
  /\ pc = "step3"
  /\ LET sector_codes == Sorted(DOMAIN ns.sector_info)
         n_sectors == Cardinality(DOMAIN ns.sector_info)
         sector_to_idx == SectorToIdx(sector_codes)
         st == AMatrixLoop(ns.a_matrix_df, sector_to_idx,
                           [A |-> InitialA(n_sectors),
                            process_to_sector |-> InitialProcessToSector])
     IN  IF n_sectors = 0
           THEN /\ pc' = "failed"
                /\ ns' = Raised("ValueError")
           ELSE IF ALoopRaises(ns.a_matrix_df, sector_to_idx)
           THEN /\ pc' = "failed"
                /\ ns' = Raised("TypeError")
           ELSE /\ pc' = "step4"
                /\ ns' = [ns EXCEPT !.sector_codes = sector_codes,
                                    !.sector_to_idx = sector_to_idx,
                                    !.A = st.A,
                                    !.process_to_sector = st.process_to_sector]
  /\ UNCHANGED <<multipliers_json, a_matrix_csv, b_matrix_csv, first_run, calcVars>>

\* [4/7] L.
Step4_Leontief ==
  /\ pc = "step4"
  /\ ns' = [ns EXCEPT !.L = Leontief(ns.A, Len(ns.sector_codes))]
  /\ pc' = "step5"
  /\ UNCHANGED <<multipliers_json, a_matrix_csv, b_matrix_csv, first_run, calcVars>>

\* [5/7] pd.read_csv of the flows, B_process.
Step5_AggregateFlows ==
  /\ pc = "step5"
  /\ \E dtype \in ColumnReadings(b_matrix_csv) :
       LET b_matrix_df == ReadCsv(b_matrix_csv, dtype)
       IN  IF BLoopRaises(b_matrix_df)
             THEN /\ pc' = "failed"
                  /\ ns' = Raised("TypeError")
             ELSE /\ pc' = "step6"
                  /\ ns' = [ns EXCEPT !.B_process = AggregateFlows(b_matrix_df)]
  /\ UNCHANGED <<multipliers_json, a_matrix_csv, b_matrix_csv, first_run, calcVars>>

\* [6/7] B and M = B @ L.
Step6_Multipliers ==
  /\ pc = "step6"
  /\ LET B == BuildB(ns.B_process, ns.process_to_sector, ns.sector_info,
                     ns.sector_codes)
     IN  ns' = [ns EXCEPT !.B = B,
                          !.M = MatMul(B, ns.L, 4, Len(ns.sector_codes))]
  /\ pc' = "step7"
  /\ UNCHANGED <<multipliers_json, a_matrix_csv, b_matrix_csv, first_run, calcVars>>

\* [7/7] the defense flags, multipliers_output, then open(mult_file, 'w'):
\* the file is truncated before anything is written.
Step7_OpenExport ==
  /\ pc = "step7"
  /\ ns' = [ns EXCEPT !.sector_info = FlagSectors(ns.sector_info),
                       !.multipliers_output =
              MultipliersOutput(OutputMeta, ns.sector_codes, ns.sector_to_idx,
                                ns.sector_info, ns.M)]
  /\ multipliers_json' = <<>>
  /\ pc' = "writing"
  /\ UNCHANGED <<a_matrix_csv, b_matrix_csv, first_run, calcVars>>

\* The text json.dump is writing, and whether all of it is on disk.
TextToWrite ==
  IF pc = "writing" THEN Serialize(ns.multipliers_output)
  ELSE Serialize(ns.merged)

\* json.dump: the next part of the document reaches the file.
WriteChunk ==
  /\ pc \in {"writing", "merge_writing"}
  /\ Len(multipliers_json) < Len(TextToWrite)
  /\ multipliers_json' =
       Append(multipliers_json, TextToWrite[Len(multipliers_json) + 1])
  /\ UNCHANGED <<pc, ns, a_matrix_csv, b_matrix_csv, first_run, calcVars>>

\* What a completed build leaves to compare a later build with.
BuildOutputs ==
  [set |-> TRUE, again |-> FALSE, sector_to_idx |-> ns.sector_to_idx, A |-> ns.A, B |-> ns.B,
   M |-> ns.M, table |-> multipliers_json]

\* The with-block ends: multipliers.json is complete.  (The model stops
\* following the script here; the three files it writes next are not read
\* by anything modelled.)
CloseExport ==
  /\ pc = "writing"
  /\ multipliers_json = TextToWrite
  /\ pc' = "done"
  /\ first_run' = IF first_run.set THEN [first_run EXCEPT !.again = TRUE]
                   ELSE BuildOutputs
  /\ UNCHANGED <<multipliers_json, ns, a_matrix_csv, b_matrix_csv, calcVars>>

\* The running script dies where it stands (a source file missing or
\* corrupt, an exception, a full disk, an interrupt): its names are gone
\* and the file stays as it is on disk.
Crash ==
  /\ ~AtShell
  /\ pc' = "failed"
  /\ ns' = EmptyNs
  /\ UNCHANGED <<multipliers_json, a_matrix_csv, b_matrix_csv, first_run, calcVars>>

\* calculate_real_multipliers.py up to its B aggregation; it writes
\* multipliers_validated.json, never multipliers.json.
RunRealMultipliers ==
  /\ AtShell
  /\ LET sector_codes == RealSectorCodes(a_matrix_csv)
         sector_to_idx == SectorToIdx(sector_codes)
         n_sectors == Len(sector_codes)
     IN  IF n_sectors = 0
           THEN /\ pc' = "failed"
                /\ ns' = Raised("ValueError")
           ELSE /\ pc' = "real_done"
                /\ ns' = [EmptyNs EXCEPT
                            !.a_matrix_df = a_matrix_csv,
                            !.sector_codes = sector_codes,
                            !.sector_to_idx = sector_to_idx,
                            !.A = RealALoop(a_matrix_csv, sector_to_idx,
                                            ZeroMatrix(n_sectors, n_sectors)),
                            !.L = Leontief(RealALoop(a_matrix_csv, sector_to_idx,
                                             ZeroMatrix(n_sectors, n_sectors)),
                                           n_sectors),
                            !.B_process = RealAggregateFlows(b_matrix_csv)]
  /\ UNCHANGED <<multipliers_json, a_matrix_csv, b_matrix_csv, first_run, calcVars>>

\* merge_energy_data up to save_json: both files loaded (json.load raises
\* on an incomplete multipliers.json), Energy merged in memory.
StartMerge ==
  /\ AtShell
  /\ IF ~IsCompleteJson(multipliers_json)
       THEN /\ pc' = "failed"
            /\ ns' = Raised("JSONDecodeError")
       ELSE LET data == ParseJson(multipliers_json)
            IN  /\ Len(Get(data.meta, "notes", <<>>)) < MaxNotes
                /\ IF MergeRaises(data, EnergyData)
                     THEN /\ pc' = "failed"
                          /\ ns' = Raised("KeyError")
                     ELSE /\ pc' = "merge_save"
                          /\ ns' = [EmptyNs EXCEPT
                                      !.merged = MergedData(data, EnergyData)]
  /\ UNCHANGED <<multipliers_json, a_matrix_csv, b_matrix_csv, first_run, calcVars>>

\* save_json: open(filepath, 'w') truncates multipliers.json.
MergeOpen ==
  /\ pc = "merge_save"
  /\ multipliers_json' = <<>>
  /\ pc' = "merge_writing"
  /\ UNCHANGED <<ns, a_matrix_csv, b_matrix_csv, first_run, calcVars>>

MergeClose ==
  /\ pc = "merge_writing"
  /\ multipliers_json = TextToWrite
  /\ pc' = "merged"
  /\ UNCHANGED <<multipliers_json, ns, a_matrix_csv, b_matrix_csv, first_run, calcVars>>

NextBuild ==
  \/ StartBuild
  \/ Step2_SectorList
  \/ Step3_AMatrix
  \/ Step4_Leontief
  \/ Step5_AggregateFlows
  \/ Step6_Multipliers
  \/ Step7_OpenExport
  \/ WriteChunk
  \/ CloseExport
  \/ Crash
  \/ RunRealMultipliers
  \/ StartMerge
  \/ MergeOpen
  \/ MergeClose

\* The two scripts that read the flows file.
NextFlows ==
  \/ StartBuild
  \/ Step2_SectorList
  \/ Step3_AMatrix
  \/ Step4_Leontief
  \/ Step5_AggregateFlows
  \/ Step6_Multipliers
  \/ Step7_OpenExport
  \/ WriteChunk
  \/ CloseExport
  \/ Crash
  \/ RunRealMultipliers

SpecBuild == InitBuild /\ [][NextBuild]_vars
SpecFlows == InitFlows /\ [][NextFlows]_vars

\* ===================================================== claims C1 - C6
\* What the latest call was asked for.
ReqCats == EffectiveCategories(request.impact_categories)
ReqSpending == request.sector_spending
\* The call named only categories the calculator has units for (the four).
CatsKnown == \A i \in DOMAIN ReqCats : ReqCats[i] \in DOMAIN calculator.units
\* The spending entries whose code the multiplier table has / has not.
KnownEntries == {i \in DOMAIN ReqSpending :
                   ReqSpending[i].code \in DOMAIN calculator.multipliers}
UnknownEntries == (DOMAIN ReqSpending) \ KnownEntries

\* The sum of the function f over the finite set S.
RECURSIVE SumInt(_, _)
SumInt(S, f) ==
  IF S = {} THEN 0
  ELSE LET x == CHOOSE y \in S : TRUE IN f[x] + SumInt(S \ {x}, f)

RECURSIVE SumRat(_, _)
SumRat(S, f) ==
  IF S = {} THEN RZero
  ELSE LET x == CHOOSE y \in S : TRUE IN RAdd(f[x], SumRat(S \ {x}, f))

\* a = b * c / 1000 on rationals, by cross-multiplication.
IsPerThousand(a, b, c) == a.num * b.den * 1000 = b.num * c * a.den

\* C1: for each sector code present in both the spending map and the
\* multiplier table and each requested category, sector_breakdown[code]
\* reports impact = multiplier[category] x (amount / 1000) under that
\* category's name, and 'spending' equal to the amount given.
C1_SectorImpactIsMultiplierTimesThousands ==
  result.status = "ok" =>
    \A k \in KnownEntries :
      LET e == ReqSpending[k]
          b == result.sector_breakdown[e.code]
      IN  /\ e.code \in DOMAIN result.sector_breakdown
          /\ b.spending = e.amount
          /\ Len(b.impacts) = Len(ReqCats)
          /\ \A i \in DOMAIN ReqCats :
               /\ b.impacts[i].category = _get_category_name(ReqCats[i])
               /\ IsPerThousand(b.impacts[i].value,
                                calculator.multipliers[e.code][ReqCats[i]],
                                e.amount)

\* C1's case: a call returned a non-zero impact for a known sector whose
\* amount is not a multiple of 1000, next to an unknown sector.
C1_Witness ==
  /\ result.status = "ok"
  /\ UnknownEntries # {}
  /\ \E k \in KnownEntries :
       /\ ReqSpending[k].amount = 500
       /\ \E i \in DOMAIN ReqCats :
            result.sector_breakdown[ReqSpending[k].code].impacts[i].value.num > 0

\* C2: the total reported in 'impacts' for each requested category equals
\* the sum over the entries of sector_breakdown of that sector's impact for
\* the same category.
C2_TotalsAreSectorSums ==
  result.status = "ok" =>
    \A i \in DOMAIN ReqCats :
      LET sectorImpact == [c \in DOMAIN result.sector_breakdown |->
                             result.sector_breakdown[c].impacts[i].value]
      IN  result.impacts[i].value =
            SumRat(DOMAIN result.sector_breakdown, sectorImpact)

\* The amounts of the entries in S, summed.
AmountsOf(S) ==
  SumInt(S, [i \in DOMAIN ReqSpending |-> ReqSpending[i].amount])

\* C3: when spending has codes absent from the multiplier table, the result
\* reports an "unmapped spending" amount: a member of the returned dict,
\* beside the four it always has, equal to the sum of the absent sectors'
\* amounts.
C3_UnmappedSpendingReported ==
  (result.status = "ok" /\ UnknownEntries # {}) =>
    \E k \in (DOMAIN result) \
             {"status", "total_spending", "impacts", "sector_breakdown",
              "model_version"} :
      result[k] = AmountsOf(UnknownEntries)

\* C4: on a spending map mixing known and unknown codes (categories among
\* those the calculator has units for), calculate does not raise; its
\* total_spending is the sum of ALL amounts and the keys of sector_breakdown
\* are exactly the spending codes the multiplier table has.
C4_BestEffortOnUnknownSectors ==
  (request.called /\ CatsKnown) =>
    /\ result.status = "ok"
    /\ result.total_spending = AmountsOf(DOMAIN ReqSpending)
    /\ DOMAIN result.sector_breakdown =
         {ReqSpending[k].code : k \in KnownEntries}

\* C4's case: a returned call whose spending mixes a known and an unknown
\* code, both with money on them.
C4_Witness ==
  /\ result.status = "ok"
  /\ \E k \in KnownEntries : ReqSpending[k].amount > 0
  /\ \E k \in UnknownEntries : ReqSpending[k].amount > 0

\* 2 * s
Double(sp) == [i \in DOMAIN sp |-> [sp[i] EXCEPT !.amount = 2 * @]]

\* C5: calculate(2s) reports twice the total_spending, twice every category
\* total and, for the same sectors, twice every per-sector impact of
\* calculate(s).
C5_LinearInSpending ==
  result.status = "ok" =>
    LET r2 == calculate(calculator, Double(ReqSpending), request.impact_categories)
        two == RInt(2)
    IN  /\ r2.status = "ok"
        /\ r2.total_spending = 2 * result.total_spending
        /\ \A i \in DOMAIN ReqCats :
             r2.impacts[i].value = RMul(two, result.impacts[i].value)
        /\ DOMAIN r2.sector_breakdown = DOMAIN result.sector_breakdown
        /\ \A c \in DOMAIN result.sector_breakdown :
             /\ r2.sector_breakdown[c].spending =
                  2 * result.sector_breakdown[c].spending
             /\ \A i \in DOMAIN ReqCats :
                  r2.sector_breakdown[c].impacts[i].value =
                    RMul(two, result.sector_breakdown[c].impacts[i].value)

\* C5's case: a returned call on two known sectors with different non-zero
\* amounts and a non-zero first total.
C5_Witness ==
  /\ result.status = "ok"
  /\ Cardinality(KnownEntries) = 2
  /\ \E j, k \in KnownEntries :
       /\ ReqSpending[j].amount = 500
       /\ ReqSpending[k].amount = 3000
  /\ ReqCats # <<>>
  /\ result.impacts[1].value.num > 0

\* C6: on the empty spending map (categories among those the calculator has
\* units for) calculate does not raise and returns total 0 for every
\* requested category, total_spending 0 and an empty sector_breakdown.
C6_EmptySpendingIsZero ==
  (request.called /\ ReqSpending = <<>> /\ CatsKnown) =>
    /\ result.status = "ok"
    /\ result.total_spending = 0
    /\ Len(result.impacts) = Len(ReqCats)
    /\ \A i \in DOMAIN ReqCats :
         /\ result.impacts[i].value = RZero
         /\ result.impacts[i].category = _get_category_name(ReqCats[i])
    /\ DOMAIN result.sector_breakdown = {}

\* C6's case: calculate({}) returned for the default categories.
C6_Witness ==
  /\ request.called
  /\ ReqSpending = <<>>
  /\ request.impact_categories.is_none
  /\ result.status = "ok"
  /\ Len(result.impacts) = 4

\* ==================================================== claims C7 - C10
\* The flows have been aggregated per process.
HasBProcess == pc \in {"step6", "step7", "writing", "done", "real_done"}

NSectors == Len(ns.sector_codes)
IMinusA == MatSub(Eye(NSectors), ns.A)

\* C7: a build on a singular (I - A) completes with the pseudo-inverse, and
\* the exported table carries a 'degraded' flag in its metadata that is true
\* exactly when the pseudo-inverse was used.  (The script has no such flag:
\* the pseudo-inverse result is exported like a clean one.)
C7_DegradedFlagExported ==
  pc = "done" =>
    /\ ns.L = (IF IsSingular(IMinusA, NSectors) THEN PInv(IMinusA, NSectors)
               ELSE Inv(IMinusA, NSectors))
    /\ "degraded" \in DOMAIN ParseJson(multipliers_json).meta
    /\ ParseJson(multipliers_json).meta.degraded = IsSingular(IMinusA, NSectors)

\* C8: a script that failed leaves multipliers.json a complete table: the
\* file is never left partially written.  (Both scripts open the file with
\* 'w' and dump into it, so a failure from there on leaves it cut short.)
C8_FailedBuildLeavesTableComplete ==
  pc = "failed" => IsCompleteJson(multipliers_json)

\* C9: a build that completes on the same transaction and flow rows as the
\* first completed build ends with the same sector_to_idx, A, B and M, and
\* leaves multipliers.json as the first build left it, whatever ran in
\* between (merges, failed builds, the other script).
C9_RebuildIsIdentical ==
  (pc = "done" /\ first_run.set) =>
    /\ ns.sector_to_idx = first_run.sector_to_idx
    /\ ns.A = first_run.A
    /\ ns.B = first_run.B
    /\ ns.M = first_run.M
    /\ multipliers_json = first_run.table

\* A second build has completed over two sectors with a non-zero multiplier.
C9_Witness ==
  /\ pc = "done"
  /\ first_run.again
  /\ NSectors = 2
  /\ \E ij \in DOMAIN ns.M : ~RIsZero(ns.M[ij])

\* The sum of the amounts of the flow rows of process p for one flowable.
SumOfFlowable(p, flowable) ==
  SumRat({i \in DOMAIN b_matrix_csv :
            /\ b_matrix_csv[i].ProcessID = p
            /\ b_matrix_csv[i].Flowable = flowable},
         [i \in DOMAIN b_matrix_csv |-> b_matrix_csv[i].Amount])

\* The GHG flow the script holds for process p (flows.get('GHG', 0)).
GHGOf(p) ==
  IF p \in DOMAIN ns.B_process THEN ns.B_process[p]["GHG"] ELSE RZero

\* C10: in either script, once the flows are aggregated, the GHG of every
\* process of the flows file is its carbon dioxide plus 28 times its methane
\* plus 265 times its nitrous oxide, and nothing else.
C10_ProcessGHGIsWeightedSum ==
  HasBProcess =>
    \A p \in {b_matrix_csv[i].ProcessID : i \in DOMAIN b_matrix_csv} :
      GHGOf(p) =
        RAdd(RAdd(SumOfFlowable(p, "Carbon dioxide"),
                  RMul(RInt(28), SumOfFlowable(p, "Methane"))),
             RMul(RInt(265), SumOfFlowable(p, "Nitrous oxide")))

\* A process with carbon dioxide, methane and nitrous oxide rows has been
\* aggregated, before M = B @ L.
C10_Witness ==
  /\ pc = "step6"
  /\ \E p \in DOMAIN ns.B_process :
       /\ ~RIsZero(SumOfFlowable(p, "Carbon dioxide"))
       /\ ~RIsZero(SumOfFlowable(p, "Methane"))
       /\ ~RIsZero(SumOfFlowable(p, "Nitrous oxide"))

\* =================================================== claims C11 - C20
\* ------------------------------------------------- C11: fresh water
\* Fresh-water rows in cubic metres, in gallons and in another unit, beside
\* a row of another substance.
WaterRowDomain ==
  {FlowRow(Farms, "Water, fresh", RInt(1), "m3"),
   FlowRow(Farms, "Water, fresh", Rat(5, 2), "m3"),
   FlowRow(Farms, "Water, fresh", RInt(10), "gal"),
   FlowRow(Mills, "Water, fresh", RInt(7), "kg"),
   FlowRow(Mills, "Carbon dioxide", RInt(3), "kg")}

\* Builds over varied fresh-water rows.
InitWater ==
  /\ InitFiles
  /\ a_matrix_csv = SampleTransactions
  /\ b_matrix_csv \in SeqUpTo(WaterRowDomain, MaxFlows)

SpecWater == InitWater /\ [][NextFlows]_vars

\* The fresh-water rows of process p, all of them or those in one unit.
WaterRows(p) ==
  {i \in DOMAIN b_matrix_csv :
     /\ b_matrix_csv[i].ProcessID = p
     /\ b_matrix_csv[i].Flowable = "Water, fresh"}
WaterRowsIn(p, unit) == {i \in WaterRows(p) : b_matrix_csv[i].Unit = unit}
FlowAmounts == [i \in DOMAIN b_matrix_csv |-> b_matrix_csv[i].Amount]

\* The Water flow the script holds for process p (flows.get('Water', 0)).
WaterOf(p) ==
  IF p \in DOMAIN ns.B_process THEN Get(ns.B_process[p], "Water", RZero)
  ELSE RZero

\* C11: in either script, once the flows are aggregated, the Water of a
\* process whose fresh-water rows are in m3 or gal is 264.172 times the sum
\* of its m3 amounts plus the sum of its gal amounts; a process whose only
\* fresh-water row is 1 m3 has Water 264.172.
C11_WaterInGallons ==
  HasBProcess =>
    \A p \in {b_matrix_csv[i].ProcessID : i \in DOMAIN b_matrix_csv} :
      (\A i \in WaterRows(p) : b_matrix_csv[i].Unit \in {"m3", "gal"}) =>
        /\ WaterOf(p) =
             RAdd(RMul(SumRat(WaterRowsIn(p, "m3"), FlowAmounts),
                       Rat(264172, 1000)),
                  SumRat(WaterRowsIn(p, "gal"), FlowAmounts))
        /\ (/\ Cardinality(WaterRows(p)) = 1
            /\ \E i \in WaterRows(p) :
                 b_matrix_csv[i].Unit = "m3" /\ b_matrix_csv[i].Amount = RInt(1))
             => WaterOf(p) = Rat(264172, 1000)

\* A process with rows in cubic metres (one of them 1 m3) and a row in
\* gallons has been aggregated.
C11_Witness ==
  /\ HasBProcess
  /\ \E p \in DOMAIN ns.B_process :
       /\ \E i \in WaterRowsIn(p, "m3") : b_matrix_csv[i].Amount = RInt(1)
       /\ WaterRowsIn(p, "gal") # {}
       /\ ~RIsZero(WaterOf(p))

\* --------------------------------------- C12: skipped-row accounting
\* The rows the A loop of calculate_multipliers_python.py leaves out: the
\* producing code or the code its process maps to is not in the index.
SkippedRows ==
  {i \in DOMAIN a_matrix_csv :
     ~(/\ StripUS(a_matrix_csv[i].FlowID) \in DOMAIN ns.sector_to_idx
       /\ a_matrix_csv[i].ProcessID \in DOMAIN ns.process_to_sector
       /\ ns.process_to_sector[a_matrix_csv[i].ProcessID]
            \in DOMAIN ns.sector_to_idx)}

\* The rows the A loop of calculate_real_multipliers.py leaves out.
RealSkippedRows ==
  {i \in DOMAIN a_matrix_csv :
     ~(/\ a_matrix_csv[i].ProcessID.suffix = "/US"
       /\ StripUS(a_matrix_csv[i].ProcessID) \in DOMAIN ns.sector_to_idx
       /\ StripUS(a_matrix_csv[i].FlowID) \in DOMAIN ns.sector_to_idx)}

TxAmounts == [i \in DOMAIN a_matrix_csv |-> a_matrix_csv[i].Amount]

\* A report that accounts for the rows: K skipped, N - K used, and the
\* total amount of the skipped rows.
AccountsFor(report, skipped) ==
  /\ {"skipped", "used", "skipped_value"} \subseteq DOMAIN report
  /\ report.skipped = Cardinality(skipped)
  /\ report.used = Len(a_matrix_csv) - Cardinality(skipped)
  /\ report.skipped_value = SumRat(skipped, TxAmounts)

\* C12: once either script has built A, what it reports about the build
\* gives the number of rows skipped, the number used and the skipped value.
\* (Neither script counts the rows it leaves out: the reports hold the shape,
\* the non-zero count and the largest coefficient only.)
C12_SkippedRowsReported ==
  /\ pc = "step4" => AccountsFor(AMatrixReport(ns.A, NSectors), SkippedRows)
  /\ pc = "real_done" =>
       AccountsFor(RealAMatrixReport(ns.A, NSectors), RealSkippedRows)

\* ------------------------------------------ C13: unparseable amounts
\* Transaction rows, one of them with an Amount that is no number.
MalformedTxDomain ==
  {TxRow(Farms, Farms, RawName("Farms", TRUE, TRUE), Rat(1, 5)),
   TxRow(Mills, Mills, RawName("Mills", FALSE, TRUE), Rat(1, 10)),
   TxRow(Mills, Farms, RawName("Farms", TRUE, TRUE), Unparseable)}

\* Flow files: a clean one, one whose methane row has no number, one whose
\* only bad Amount is on a substance the script does not use.
MalformedFlowFiles ==
  {SampleFlows,
   <<FlowRow(Farms, "Carbon dioxide", RInt(2), "kg"),
     FlowRow(Mills, "Methane", Unparseable, "kg")>>,
   <<FlowRow(Farms, "Carbon dioxide", RInt(2), "kg"),
     FlowRow(Farms, "Sulfur dioxide", Unparseable, "kg")>>}

InitMalformed ==
  /\ InitFiles
  /\ a_matrix_csv \in SeqUpTo(MalformedTxDomain, MaxTx)
  /\ b_matrix_csv \in MalformedFlowFiles

\* calculate_multipliers_python.py alone.
NextPython ==
  \/ StartBuild
  \/ Step2_SectorList
  \/ Step3_AMatrix
  \/ Step4_Leontief
  \/ Step5_AggregateFlows
  \/ Step6_Multipliers
  \/ Step7_OpenExport
  \/ WriteChunk
  \/ CloseExport
  \/ Crash

SpecMalformed == InitMalformed /\ [][NextPython]_vars

\* The rows of a file whose Amount is no number.
MalformedRows(rows) == {i \in DOMAIN rows : ~IsNumber(rows[i].Amount)}

\* C13: no build ends on the TypeError of an Amount that is no number, and a
\* completed build carries the number of such rows in the exported metadata.
\* (The scripts do arithmetic on the cell as read, so the first str that
\* reaches a += ends the build; no row is dropped and nothing is counted.)
C13_MalformedRowsFailOnlyTheRow ==
  /\ ns.traceback # "TypeError"
  /\ pc = "done" =>
       LET meta == ParseJson(multipliers_json).meta
       IN  /\ "malformed_rows" \in DOMAIN meta
           /\ meta.malformed_rows =
                Cardinality(MalformedRows(a_matrix_csv))
                  + Cardinality(MalformedRows(b_matrix_csv))

\* ---------------------------- C14, C19: from the files to the impacts
\* The two-sector economy A = [[0, 0.1], [0.2, 0]]: each process is first
\* seen on a row of its own sector, then buys from the other.
ScenarioTransactions ==
  <<TxRow(Farms, Farms, RawName("Farms", TRUE, TRUE), RZero),
    TxRow(Farms, Mills, RawName("Mills", FALSE, TRUE), Rat(1, 10)),
    TxRow(Mills, Mills, RawName("Mills", FALSE, TRUE), RZero),
    TxRow(Mills, Farms, RawName("Farms", TRUE, TRUE), Rat(1, 5))>>

\* Sector 111 buys 0.3 from sector 222; sector 222 buys nothing.
ChainTransactions ==
  <<TxRow(Farms, Farms, RawName("Farms", TRUE, TRUE), RZero),
    TxRow(Farms, Mills, RawName("Mills", FALSE, TRUE), Rat(3, 10)),
    TxRow(Mills, Mills, RawName("Mills", FALSE, TRUE), RZero)>>

\* B = [[1, 2]]: direct kg CO2e per dollar of sector 111 and of sector 222.
ScenarioFlows ==
  <<FlowRow(Farms, "Carbon dioxide", RInt(1), "kg"),
    FlowRow(Mills, "Carbon dioxide", RInt(2), "kg")>>

\* Other direct flows for the same two processes.
OtherFlows ==
  <<FlowRow(Farms, "Carbon dioxide", RInt(3), "kg"),
    FlowRow(Mills, "Carbon dioxide", Rat(1, 2), "kg"),
    FlowRow(Mills, "Carbon dioxide", Rat(1, 4), "kg")>>

ScenarioTxFiles == {ScenarioTransactions, ChainTransactions}
ScenarioFlowFiles == {ScenarioFlows, OtherFlows}

\* $1000 split 50/50 over the two sectors, and all of it on one of them.
ScenarioSpendings ==
  {<<[code |-> 111, amount |-> 500], [code |-> 222, amount |-> 500]>>,
   <<[code |-> 111, amount |-> 1000]>>,
   <<[code |-> 222, amount |-> 1000]>>}

InitEndToEnd ==
  /\ InitFiles
  /\ a_matrix_csv \in ScenarioTxFiles
  /\ b_matrix_csv \in ScenarioFlowFiles

\* The backend starts (or restarts): DIOCalculator() loads multipliers.json
\* as it is on disk.  json.load raises on an incomplete file and no
\* calculator is made.
NewCalculator ==
  /\ ~request.called
  /\ IsCompleteJson(multipliers_json)
  /\ calculator' = LoadMultipliers(ParseJson(multipliers_json))
  /\ UNCHANGED <<multipliers_json, request, result, buildVars, io_call, calls>>

NextEndToEnd ==
  \/ NextPython
  \/ NewCalculator
  \/ \E sp \in ScenarioSpendings : Calculate(sp, [is_none |-> TRUE, value |-> <<>>])
  \/ Return

SpecEndToEnd == InitEndToEnd /\ [][NextEndToEnd]_vars

\* The scenario's files have been built into multipliers.json.
ScenarioBuilt ==
  /\ pc = "done"
  /\ a_matrix_csv = ScenarioTransactions
  /\ b_matrix_csv = ScenarioFlows

\* B . (I - A)^-1 by hand: (I - A)^-1 = [[1, 0.1], [0.2, 1]] / 0.98, so
\* M = [1.4 / 0.98, 2.1 / 0.98] = [10/7, 15/7] kg CO2e per dollar.
HandM == [j \in {0, 1} |-> IF j = 0 THEN Rat(10, 7) ELSE Rat(15, 7)]

\* The GHG multiplier the file holds for the sector with index j.
ExportedGHG(j) == ParseJson(multipliers_json).sectors[j + 1].values.GHG

\* The calculator holds the table the scenario was built into, and has
\* answered a call that split $1000 evenly over the two sectors.
ScenarioApplied ==
  /\ a_matrix_csv = ScenarioTransactions
  /\ b_matrix_csv = ScenarioFlows
  /\ first_run.set
  /\ calculator = LoadMultipliers(ParseJson(first_run.table))
  /\ request.called
  /\ request.sector_spending =
       <<[code |-> 111, amount |-> 500], [code |-> 222, amount |-> 500]>>
  /\ result.status = "ok"

\* The matrices of the scenario are the hand-computed ones.
ScenarioMatricesByHand ==
  ScenarioBuilt =>
    /\ ns.A = [ij \in Idx(2) \X Idx(2) |->
                 IF ij = <<0, 1>> THEN Rat(1, 10)
                 ELSE IF ij = <<1, 0>> THEN Rat(1, 5) ELSE RZero]
    /\ ns.B[<<0, 0>>] = RInt(1) /\ ns.B[<<0, 1>>] = RInt(2)
    /\ \A j \in {0, 1} : ns.M[<<0, j>>] = HandM[j]

\* C14: for A = [[0, 0.1], [0.2, 0]] and B = [[1, 2]] the build computes the
\* hand-computed M = B (I - A)^-1, the exported GHG multipliers are 1000
\* times its entries, and $1000 split 50/50 gives a GHG total of
\* 0.5 x 1000 x M[0,0] + 0.5 x 1000 x M[0,1].  (The export rounds each
\* entry to two decimals, so the table and the total are off the products.)
C14_ScenarioEndToEnd ==
  /\ ScenarioMatricesByHand
  /\ ScenarioBuilt =>
       \A j \in {0, 1} : ExportedGHG(j) = RMul(RInt(1000), HandM[j])
  /\ ScenarioApplied =>
       result.impacts[1].value =
         RAdd(RMul(RInt(500), HandM[0]), RMul(RInt(500), HandM[1]))

\* The chain's files have been built.
ChainBuilt ==
  /\ pc = "done"
  /\ a_matrix_csv = ChainTransactions
  /\ b_matrix_csv = ScenarioFlows

\* C19: where sector 111 buys 0.3 per dollar from sector 222 and sector 222
\* buys nothing, with direct GHG flows 1 and 2, the multiplier of the buyer
\* 111 is 1 + 0.3 x 2 and that of the supplier 222 is 2.  (The script fills
\* A[consuming, producing] and then uses M = B (I - A)^-1, which charges the
\* supplier with the buyer's flow instead.)
C19_BuyerCarriesSupplierFlow ==
  ChainBuilt =>
    /\ ns.M[<<0, ns.sector_to_idx[111]>>] =
         RAdd(RInt(1), RMul(Rat(3, 10), RInt(2)))
    /\ ns.M[<<0, ns.sector_to_idx[222]>>] = RInt(2)

\* ------------------------------- C15: calculate_leontief_energy.py
\* s.startswith(p)
StartsWith(s, p) == Len(s) >= Len(p) /\ \A j \in 1..Len(p) : s[j] = p[j]

\* s[:2]
FirstTwo(s) == SubSeq(s, 1, IF Len(s) < 2 THEN Len(s) ELSE 2)

\* s.isdigit() and int(s) for a str of ASCII characters.
IsDigit(s) == s # <<>> /\ \A i \in DOMAIN s : \E d \in DOMAIN Digits : Digits[d] = s[i]
RECURSIVE IntOf(_)
IntOf(s) ==
  IF s = <<>> THEN 0
  ELSE 10 * IntOf(SubSeq(s, 1, Len(s) - 1))
       + (CHOOSE d \in DOMAIN Digits : Digits[d] = s[Len(s)]) - 1

\* The keywords of "defense-relevant manufacturing".
ManufacturingKeywords ==
  {<<"a", "i", "r", "c", "r", "a", "f", "t">>,
   <<"m", "i", "s", "s", "i", "l", "e">>,
   <<"s", "h", "i", "p">>,
   <<"v", "e", "s", "s", "e", "l">>,
   <<"v", "e", "h", "i", "c", "l", "e">>,
   <<"t", "a", "n", "k">>}

\* A variant of the intensity test of standard manufacturing that takes
\* 3,000 itself as standard.
IsStandardIntensity_Inclusive(direct_intensity) == direct_intensity >= 3000

\* direct_intensity > 3000
IsStandardIntensity(direct_intensity) == direct_intensity > 3000

\* A variant of the second band that takes in 8000 itself.
IsHeavyIntensity_Inclusive(direct_intensity) == direct_intensity >= 8000

\* direct_intensity > 8000 (reached when it is not above 12000)
IsHeavyIntensity(direct_intensity) == direct_intensity > 8000

\* get_io_multiplier: the first branch that matches, as (multiplier, source).
get_io_multiplier(naics_code, sector_name, direct_intensity) ==
  LET code_str == naics_code
      name_lower == Lower(sector_name)
      Ret(m, source) == [multiplier |-> m, source |-> source]
  IN  IF direct_intensity > 12000
        THEN Ret(Rat(135, 100), "IO literature: energy-intensive sectors (Miller & Blair 2009)")
      ELSE IF IsHeavyIntensity(direct_intensity)
        THEN Ret(Rat(145, 100), "IO literature: heavy manufacturing (CMU EIO-LCA)")
      ELSE IF StartsWith(code_str, <<"2", "3">>)
        THEN Ret(Rat(21, 10), "IO literature: construction sectors (Suh 2009)")
      ELSE IF StartsWith(code_str, <<"2", "1">>)
        THEN Ret(Rat(14, 10), "IO literature: mining sectors (Miller & Blair 2009)")
      ELSE IF StartsWith(code_str, <<"1", "1">>)
        THEN Ret(Rat(16, 10), "IO literature: agriculture sectors (CMU EIO-LCA)")
      ELSE IF StartsWith(code_str, <<"2", "2">>)
        THEN Ret(Rat(13, 10), "IO literature: utilities sectors")
      ELSE IF StartsWith(code_str, <<"3">>) /\ IsStandardIntensity(direct_intensity)
        THEN IF \E kw \in ManufacturingKeywords : Contains(name_lower, kw)
               THEN Ret(Rat(175, 100), "IO literature: complex defense manufacturing (higher materials/components)")
               ELSE Ret(Rat(165, 100), "IO literature: standard manufacturing (Miller & Blair 2009)")
      ELSE IF StartsWith(code_str, <<"3">>)
        THEN Ret(Rat(155, 100), "IO literature: light manufacturing")
      ELSE IF StartsWith(code_str, <<"4", "2">>) \/ StartsWith(code_str, <<"4", "4">>)
        THEN Ret(Rat(15, 10), "IO literature: trade sectors (CMU EIO-LCA)")
      ELSE IF StartsWith(code_str, <<"4", "8">>)
        THEN Ret(Rat(16, 10), "IO literature: transportation sectors")
      ELSE IF StartsWith(code_str, <<"5", "1">>)
        THEN Ret(Rat(17, 10), "IO literature: information sectors (high purchased services)")
      ELSE IF StartsWith(code_str, <<"5", "4">>)
        THEN Ret(Rat(18, 10), "IO literature: professional services (Suh 2009)")
      ELSE IF IsDigit(FirstTwo(code_str)) /\ IntOf(FirstTwo(code_str)) >= 55
        THEN Ret(Rat(175, 100), "IO literature: service sectors (Miller & Blair 2009)")
      ELSE Ret(Rat(16, 10), "IO literature: average across sectors")

\* Sector codes, names and direct intensities (MJ per $1000) to classify.
IoCodes ==
  {<<"3", "3", "6", "4", "1", "1">>,
   <<"3", "2", "5">>,
   <<"3">>,
   <<"2", "3", "6", "2", "2", "0">>,
   <<"2", "1", "1">>,
   <<"1", "1", "1">>,
   <<"2", "2", "1", "1">>,
   <<"4", "2", "3">>,
   <<"4", "4", "5">>,
   <<"4", "5">>,
   <<"4", "8", "1">>,
   <<"4", "9">>,
   <<"5", "1", "1">>,
   <<"5", "4", "1">>,
   <<"5", "6", "1">>,
   <<"9", "2">>,
   <<"5">>,
   <<"1", "0">>,
   <<"G", "F", "G">>,
   <<"5", "A">>}
IoNames ==
  {<<"A", "i", "r", "c", "r", "a", "f", "t", " ", "M", "a", "n", "u", "f", "a", "c", "t", "u", "r", "i", "n", "g">>,
   <<"G", "u", "i", "d", "e", "d", " ", "M", "I", "S", "S", "I", "L", "E", " ", "P", "a", "r", "t", "s">>,
   <<"S", "h", "i", "p", " ", "B", "u", "i", "l", "d", "i", "n", "g">>,
   <<"N", "a", "v", "a", "l", " ", "V", "e", "s", "s", "e", "l", "s">>,
   <<"M", "o", "t", "o", "r", " ", "V", "e", "h", "i", "c", "l", "e", " ", "B", "o", "d", "i", "e", "s">>,
   <<"T", "a", "n", "k", " ", "C", "o", "m", "p", "o", "n", "e", "n", "t", "s">>,
   <<"L", "e", "a", "d", "e", "r", "s", "h", "i", "p", " ", "T", "r", "a", "i", "n", "i", "n", "g">>,
   <<"P", "a", "p", "e", "r", " ", "M", "i", "l", "l", "s">>,
   <<>>}
IoIntensities == {0, 3000, 3001, 8000, 8001, 12000, 12001}

InitBanding ==
  /\ InitFiles
  /\ a_matrix_csv = <<>>
  /\ b_matrix_csv = <<>>

\* One call of get_io_multiplier; it reads and assigns nothing but its
\* arguments and its return value.
GetIoMultiplier(naics_code, sector_name, direct_intensity) ==
  /\ ~io_call.called
  /\ io_call' = [called |-> TRUE, naics_code |-> naics_code,
                 sector_name |-> sector_name,
                 direct_intensity |-> direct_intensity,
                 returned |-> get_io_multiplier(naics_code, sector_name,
                                                direct_intensity)]
  /\ UNCHANGED <<multipliers_json, calculator, request, result, calls, buildVars>>

\* The caller has unpacked the returned pair.
IoReturn ==
  /\ io_call.called
  /\ io_call' = NoIoCall
  /\ UNCHANGED <<multipliers_json, calculator, request, result, calls, buildVars>>

NextBanding ==
  \/ \E c \in IoCodes, n \in IoNames, x \in IoIntensities : GetIoMultiplier(c, n, x)
  \/ IoReturn

SpecBanding == InitBanding /\ [][NextBanding]_vars

\* The rule table of the classification, with guards that exclude one
\* another: the intensity band first, then the class the code prefix names.
IntensityBand(x) ==
  CASE x > 12000 -> "energy-intensive"
    [] x > 8000 /\ x <= 12000 -> "heavy"
    [] x > 3000 /\ x <= 8000 -> "moderate"
    [] x <= 3000 -> "low"

SectorClass(code) ==
  LET two == FirstTwo(code)
      numeric == IsDigit(two)
  IN  CASE two = <<"2", "3">> -> "construction"
        [] two = <<"2", "1">> -> "mining"
        [] two = <<"1", "1">> -> "agriculture"
        [] two = <<"2", "2">> -> "utilities"
        [] code # <<>> /\ code[1] = "3" -> "manufacturing"
        [] two = <<"4", "2">> \/ two = <<"4", "4">> -> "trade"
        [] two = <<"4", "8">> -> "transportation"
        [] two = <<"5", "1">> -> "information"
        [] two = <<"5", "4">> -> "professional services"
        [] numeric /\ IntOf(two) >= 55 -> "other services"
        [] OTHER -> "none"

HasKeyword(name, keywords) == \E kw \in keywords : Contains(Lower(name), kw)

RuleTable(code, name, x, keywords) ==
  LET band == IntensityBand(x)
      class == SectorClass(code)
  IN  CASE band = "energy-intensive" -> Rat(135, 100)
        [] band = "heavy" -> Rat(145, 100)
        [] band \in {"moderate", "low"} /\ class = "construction" -> Rat(210, 100)
        [] band \in {"moderate", "low"} /\ class = "mining" -> Rat(140, 100)
        [] band \in {"moderate", "low"} /\ class = "agriculture" -> Rat(160, 100)
        [] band \in {"moderate", "low"} /\ class = "utilities" -> Rat(130, 100)
        [] band = "moderate" /\ class = "manufacturing" /\ HasKeyword(name, keywords)
             -> Rat(175, 100)
        [] band = "moderate" /\ class = "manufacturing" /\ ~HasKeyword(name, keywords)
             -> Rat(165, 100)
        [] band = "low" /\ class = "manufacturing" -> Rat(155, 100)
        [] band \in {"moderate", "low"} /\ class = "trade" -> Rat(150, 100)
        [] band \in {"moderate", "low"} /\ class = "transportation" -> Rat(160, 100)
        [] band \in {"moderate", "low"} /\ class = "information" -> Rat(170, 100)
        [] band \in {"moderate", "low"} /\ class = "professional services" -> Rat(180, 100)
        [] band \in {"moderate", "low"} /\ class = "other services" -> Rat(175, 100)
        [] band \in {"moderate", "low"} /\ class = "none" -> Rat(160, 100)

\* The keywords the rule table names, and those the function looks for.
FourKeywords == {<<"a", "i", "r", "c", "r", "a", "f", "t">>, <<"s", "h", "i", "p">>, <<"v", "e", "h", "i", "c", "l", "e">>, <<"t", "a", "n", "k">>}
SixKeywords ==
  FourKeywords \cup {<<"m", "i", "s", "s", "i", "l", "e">>, <<"v", "e", "s", "s", "e", "l">>}

\* C15 as stated: every call returns the multiplier of the rule table, with
\* 1.75 for standard manufacturing whose name has one of the keywords
\* aircraft, ship, vehicle, tank.  (The function also looks for missile and
\* vessel.)
C15_RuleTableFourKeywords ==
  io_call.called =>
    io_call.returned.multiplier =
      RuleTable(io_call.naics_code, io_call.sector_name,
                io_call.direct_intensity, FourKeywords)

\* C15: every call of get_io_multiplier returns, for codes numeric or not,
\* the multiplier of the rule table with the keywords aircraft, missile,
\* ship, vessel, vehicle, tank, and touches nothing but its return value.
C15_RuleTableSixKeywords ==
  io_call.called =>
    /\ io_call.returned.multiplier =
         RuleTable(io_call.naics_code, io_call.sector_name,
                   io_call.direct_intensity, SixKeywords)
    /\ calculator = LoadMultipliers(DemoTable)
    /\ multipliers_json = Serialize(DemoTable)

\* The code 'GFG' has been classified: no branch on the code matches and
\* the default 1.60 is returned.
C15_Witness ==
  /\ io_call.called
  /\ io_call.naics_code = <<"G", "F", "G">>
  /\ io_call.direct_intensity = 3001
  /\ io_call.returned.multiplier = Rat(16, 10)

\* --------------------------------- C16: concurrent calculate calls
\* A variant of the lookup that takes the entry out of the dict (pop).
LookedUp_Popped(multipliers, code) ==
  [c \in (DOMAIN multipliers) \ {code} |-> multipliers[c]]

\* self.multipliers after multipliers = self.multipliers[sector_code]: a
\* lookup leaves the dict as it was.
LookedUp(multipliers, code) == multipliers

\* What concurrent callers ask for: spendings over known and unknown codes,
\* with the default categories or with one the calculator has no unit for.
ConcurrentSpendings ==
  {<<>>,
   <<[code |-> 336411, amount |-> 3000]>>,
   <<[code |-> 336411, amount |-> 500], [code |-> 336611, amount |-> 3000]>>,
   <<[code |-> 999999, amount |-> 500], [code |-> 336611, amount |-> 500]>>}
ConcurrentCategoryArgs ==
  {[is_none |-> TRUE, value |-> <<>>],
   [is_none |-> FALSE, value |-> <<"Noise">>]}

\* A call enters calculate: the default categories, total_spending, the
\* empty sector_breakdown and the zeroed total_impacts are its locals.
BeginCall(k, sp, ic) ==
  /\ k \notin DOMAIN calls
  /\ calls' =
       [j \in (DOMAIN calls) \cup {k} |->
          IF j = k
            THEN [sector_spending |-> sp, impact_categories |-> ic,
                  pos |-> 1,
                  acc |-> [totals |-> [c \in Range(EffectiveCategories(ic)) |-> RZero],
                           breakdown |-> [c \in {} |-> 0]],
                  status |-> "running",
                  outcome |-> [status |-> "none"]]
            ELSE calls[j]]
  /\ UNCHANGED <<multipliers_json, calculator, request, result, io_call, buildVars>>

\* One pass of the loop over sector_spending.items() in call k.
SectorStep(k) ==
  /\ k \in DOMAIN calls
  /\ calls[k].status = "running"
  /\ calls[k].pos <= Len(calls[k].sector_spending)
  /\ LET item == calls[k].sector_spending[calls[k].pos]
         cats == EffectiveCategories(calls[k].impact_categories)
         known == item.code \in DOMAIN calculator.multipliers
     IN  /\ calculator' =
              IF known
                THEN [calculator EXCEPT
                        !.multipliers = LookedUp(@, item.code)]
                ELSE calculator
         /\ IF known /\ \E i \in DOMAIN cats : cats[i] \notin DOMAIN calculator.units
              THEN calls' = [calls EXCEPT
                     ![k].status = "raised",
                     ![k].outcome = [status |-> "error", error |-> "KeyError"]]
              ELSE calls' = [calls EXCEPT
                     ![k].pos = @ + 1,
                     ![k].acc = SectorLoop(calculator, <<item>>, cats, @)]
  /\ UNCHANGED <<multipliers_json, request, result, io_call, buildVars>>

\* Call k formats its totals and returns (or raises on self.units[cat]).
FinishCall(k) ==
  /\ k \in DOMAIN calls
  /\ calls[k].status = "running"
  /\ calls[k].pos > Len(calls[k].sector_spending)
  /\ LET cats == EffectiveCategories(calls[k].impact_categories)
     IN  IF \E i \in DOMAIN cats : cats[i] \notin DOMAIN calculator.units
           THEN calls' = [calls EXCEPT
                  ![k].status = "raised",
                  ![k].outcome = [status |-> "error", error |-> "KeyError"]]
           ELSE calls' = [calls EXCEPT
                  ![k].status = "returned",
                  ![k].outcome =
                    [status |-> "ok",
                     total_spending |-> SumAmounts(calls[k].sector_spending),
                     impacts |-> [i \in 1..Len(cats) |->
                                    ImpactEntry(cats[i], calls[k].acc.totals[cats[i]],
                                                calculator.units)],
                     sector_breakdown |-> calls[k].acc.breakdown,
                     model_version |-> "DIO v2.0"]]
  /\ UNCHANGED <<multipliers_json, calculator, request, result, io_call, buildVars>>

\* The route hands the result of call k (or its HTTP 500) to the client.
Respond(k) ==
  /\ k \in DOMAIN calls
  /\ calls[k].status \in {"returned", "raised"}
  /\ calls' = [j \in (DOMAIN calls) \ {k} |-> calls[j]]
  /\ UNCHANGED <<multipliers_json, calculator, request, result, io_call, buildVars>>

NextConcurrent ==
  \/ \E k \in 1..MaxCalls, sp \in ConcurrentSpendings, ic \in ConcurrentCategoryArgs :
       BeginCall(k, sp, ic)
  \/ \E k \in 1..MaxCalls : SectorStep(k)
  \/ \E k \in 1..MaxCalls : FinishCall(k)
  \/ \E k \in 1..MaxCalls : Respond(k)

SpecConcurrent == InitCalc /\ [][NextConcurrent]_vars

\* C16: however the steps of concurrent calls interleave, the calculator
\* holds what it loaded from multipliers.json, and every call that has
\* ended has the outcome calculate gives for its arguments run alone.
C16_CallsLeaveTableAlone ==
  /\ calculator = LoadMultipliers(ParseJson(multipliers_json))
  /\ \A k \in DOMAIN calls :
       calls[k].status \in {"returned", "raised"} =>
         calls[k].outcome =
           calculate(LoadMultipliers(ParseJson(multipliers_json)),
                     calls[k].sector_spending, calls[k].impact_categories)

\* One call has returned a breakdown of two sectors while another, begun
\* before the first ended, is between its two sectors.
C16_Witness ==
  \E k, j \in DOMAIN calls :
    /\ k # j
    /\ calls[k].status = "returned"
    /\ Cardinality(DOMAIN calls[k].outcome.sector_breakdown) = 2
    /\ calls[j].status = "running"
    /\ calls[j].pos = 2
    /\ Len(calls[j].sector_spending) = 2

\* --------------------------------- C17: the default impact categories
\* The categories an 'impacts' list reports, in list order.
CategoriesOf(impacts) == [i \in DOMAIN impacts |-> impacts[i].category]

FourInOrder ==
  <<"Greenhouse Gas Emissions", "Energy Use", "Water Consumption", "Land Use">>

SpendingCodes(sp) == {sp[i].code : i \in DOMAIN sp}

\* C17: a call without impact_categories returns normally; its 'impacts'
\* list and the impacts list of every sector of the breakdown have exactly
\* the four entries GHG, Energy, Water, Land in that order; and when every
\* spending code is in the table, sector_breakdown has one entry per
\* spending code and no other.
C17_FourCategoriesInOrder ==
  (request.called /\ request.impact_categories.is_none) =>
    /\ result.status = "ok"
    /\ CategoriesOf(result.impacts) = FourInOrder
    /\ \A c \in DOMAIN result.sector_breakdown :
         CategoriesOf(result.sector_breakdown[c].impacts) = FourInOrder
    /\ (SpendingCodes(request.sector_spending) \subseteq DOMAIN calculator.multipliers) =>
         /\ DOMAIN result.sector_breakdown = SpendingCodes(request.sector_spending)
         /\ Cardinality(DOMAIN result.sector_breakdown) = Len(request.sector_spending)

\* The multi-sector call of the test: two known codes, no categories given,
\* on a table whose members lack some categories.
C17_Witness ==
  /\ request.called
  /\ request.impact_categories.is_none
  /\ Len(request.sector_spending) = 2
  /\ SpendingCodes(request.sector_spending) \subseteq DOMAIN calculator.multipliers
  /\ "units" \notin DOMAIN ParseJson(multipliers_json).meta
  /\ result.status = "ok"
  /\ Len(result.impacts) = 4

\* ------------------------------------------------ C18: the sector index
Grain == Id(1111, "/US")
\* The mills' identifier written without the region suffix.
MillsBare == Id(222, "")

\* Transactions whose producing codes sort differently as strings ('1111'
\* before '222') than as numbers, and name one sector with and without '/US'.
IndexTxDomain ==
  {TxRow(Grain, Grain, RawName("Grain", TRUE, TRUE), Rat(1, 10)),
   TxRow(Mills, Mills, RawName("Mills", FALSE, TRUE), Rat(1, 10)),
   TxRow(MillsBare, MillsBare, RawName("Mills", FALSE, FALSE), Rat(1, 10)),
   TxRow(Mills, Grain, RawName("Grain", TRUE, TRUE), Rat(1, 5)),
   TxRow(Farms, Farms, RawName("Farms", TRUE, TRUE), Rat(1, 10))}

InitIndex ==
  /\ InitFiles
  /\ a_matrix_csv \in SeqUpTo(IndexTxDomain, MaxTx + 1)
  /\ b_matrix_csv = OtherFlows

SpecIndex == InitIndex /\ [][NextFlows]_vars

\* Either script has assigned sector_to_idx.
HasSectorIndex == DOMAIN ns.sector_to_idx # {}

\* The distinct bare producing codes of the transactions file.
ProducingCodes == {a_matrix_csv[i].FlowID.base : i \in DOMAIN a_matrix_csv}

\* C18: in either script the sector index is one-to-one from the distinct
\* bare producing codes of the transactions onto 0..N-1, N the number of
\* those codes; a code gets a smaller index exactly when its string sorts
\* first; and producing identifiers that differ only in '/US' are one key.
C18_SectorIndexIsSortedBijection ==
  HasSectorIndex =>
    LET idx == ns.sector_to_idx
        N == Cardinality(ProducingCodes)
    IN  /\ DOMAIN idx = ProducingCodes
        /\ {idx[c] : c \in DOMAIN idx} = 0..(N - 1)
        /\ \A c, d \in DOMAIN idx : idx[c] = idx[d] => c = d
        /\ Len(ns.sector_codes) = N
        /\ \A c, d \in DOMAIN idx :
             idx[c] < idx[d] <=> StrLess(DecimalDigits(c), DecimalDigits(d))
        /\ \A i, j \in DOMAIN a_matrix_csv :
             a_matrix_csv[i].FlowID.base = a_matrix_csv[j].FlowID.base =>
               idx[StripUS(a_matrix_csv[i].FlowID)] = idx[StripUS(a_matrix_csv[j].FlowID)]

\* An index over '1111' and '222', the second named with and without '/US'
\* in the transactions: '1111' has index 0 and '222' index 1.
C18_Witness ==
  /\ HasSectorIndex
  /\ \E i, j \in DOMAIN a_matrix_csv :
       /\ a_matrix_csv[i].FlowID = Mills
       /\ a_matrix_csv[j].FlowID = MillsBare
  /\ DOMAIN ns.sector_to_idx = {1111, 222}
  /\ ns.sector_to_idx[1111] = 0
  /\ ns.sector_to_idx[222] = 1

\* ------------------------------------------- C20: the name of a sector
\* The first row of the transactions file whose producing code is c.
FirstRowOf(c) ==
  CHOOSE i \in DOMAIN a_matrix_csv :
    /\ StripUS(a_matrix_csv[i].FlowID) = c
    /\ \A j \in 1..(i - 1) : StripUS(a_matrix_csv[j].FlowID) # c

\* C20: the name sector_info keeps for a code is the (cleaned) name of the
\* first transaction row with that producing code; rows further down that
\* name the code differently do not change it.
C20_FirstNameRetained ==
  \A c \in DOMAIN ns.sector_info :
    ns.sector_info[c].name = CleanName(a_matrix_csv[FirstRowOf(c)].Flow)

\* ===================================================== claims C21 - C30
\* ------------------------------------------------ C21: A is a sum of rows
\* The script whose names ns holds.
ByRealScript == pc = "real_done"
HasA == DOMAIN ns.A # {}

\* The sector a row's consuming side resolves to: in the later script the
\* producing code of the first row naming the row's process; in the earlier
\* one the process id without '/US' (none when it has no such suffix).
FirstRowOfProcess(p) ==
  CHOOSE i \in DOMAIN a_matrix_csv :
    /\ a_matrix_csv[i].ProcessID = p
    /\ \A j \in 1..(i - 1) : a_matrix_csv[j].ProcessID # p
ConsumingSides(k) ==
  IF ByRealScript
    THEN IF a_matrix_csv[k].ProcessID.suffix = "/US"
           THEN {a_matrix_csv[k].ProcessID.base} ELSE {}
    ELSE {a_matrix_csv[FirstRowOfProcess(a_matrix_csv[k].ProcessID)].FlowID.base}

\* The transaction rows that resolve to the cell (i, j) of A.
RowsOfCell(i, j) ==
  {k \in DOMAIN a_matrix_csv :
     /\ a_matrix_csv[k].FlowID.base \in DOMAIN ns.sector_to_idx
     /\ ns.sector_to_idx[a_matrix_csv[k].FlowID.base] = j
     /\ \E c \in ConsumingSides(k) :
          /\ c \in DOMAIN ns.sector_to_idx
          /\ ns.sector_to_idx[c] = i}

RECURSIVE SumOfRows(_)
SumOfRows(K) ==
  IF K = {} THEN RZero
  ELSE LET k == CHOOSE x \in K : TRUE
       IN  RAdd(a_matrix_csv[k].Amount, SumOfRows(K \ {k}))

AIsSumOfRows ==
  \A ij \in DOMAIN ns.A : ns.A[ij] = SumOfRows(RowsOfCell(ij[1], ij[2]))

\* C21: once either script has built A, every cell A[i, j] is the sum of
\* the amounts of the rows that resolve to (i, j) - several rows add up,
\* negative amounts too - and a cell with no such row is 0.  (The earlier
\* script assigns the cell instead of adding to it.)
C21_AIsSumOfRows == HasA => AIsSumOfRows

\* The same of the later script alone.
PythonAIsSumOfRows == (HasA /\ ~ByRealScript) => AIsSumOfRows

\* ------------------------------------- C22: one process -> sector table
HasB == DOMAIN ns.B # {}

\* The processes the transactions name, and the sector each resolved to
\* when A was built.
TxProcesses == {a_matrix_csv[i].ProcessID : i \in DOMAIN a_matrix_csv}
ResolvedInA(p) == a_matrix_csv[FirstRowOfProcess(p)].FlowID.base

\* The processes whose flows belong in column j of B.
ProcessesOfColumn(j) ==
  {p \in (DOMAIN ns.B_process) \cap TxProcesses :
     /\ ResolvedInA(p) \in DOMAIN ns.sector_to_idx
     /\ ns.sector_to_idx[ResolvedInA(p)] = j}

RECURSIVE SumOfProcesses(_, _)
SumOfProcesses(P, cat) ==
  IF P = {} THEN RZero
  ELSE LET p == CHOOSE x \in P : TRUE
       IN  RAdd(Get(ns.B_process[p], cat, RZero), SumOfProcesses(P \ {p}, cat))

\* C22: once B is built, the table that maps processes to sectors is the
\* one under which A is the sum of its rows, every column of B is the sum
\* of the flows of the processes that table sends to the column's sector,
\* and a process with flows but no entry in the table is in no column.
C22_SameResolutionTable ==
  HasB =>
    /\ DOMAIN ns.process_to_sector = TxProcesses
    /\ \A p \in TxProcesses : ns.process_to_sector[p] = ResolvedInA(p)
    /\ AIsSumOfRows
    /\ \A cj \in DOMAIN ns.B :
         ns.B[cj] = SumOfProcesses(ProcessesOfColumn(cj[2]), categories[cj[1] + 1])

\* B is built where process 111 was first seen buying from sector 222 and
\* process 222, which has methane flows, is in no transaction: the only
\* column holds the 2 kg of 111 and nothing of 222.
C22_Witness ==
  /\ HasB
  /\ Farms \in DOMAIN ns.process_to_sector
  /\ ns.process_to_sector[Farms] = 222
  /\ Mills \in (DOMAIN ns.B_process) \ (DOMAIN ns.process_to_sector)
  /\ ~RIsZero(Get(ns.B_process[Mills], "GHG", RZero))
  /\ ns.B[<<0, ns.sector_to_idx[222]>>] = RInt(2)

\* ---------------------------- C23: a process keeps its first sector
\* Step 3 taken one row at a time.  [3/7] up to the loop: sector_codes,
\* sector_to_idx, A = zeros, process_to_sector = {}.
Step3_Begin ==
  /\ pc = "step3"
  /\ LET sector_codes == Sorted(DOMAIN ns.sector_info)
     IN  ns' = [ns EXCEPT !.sector_codes = sector_codes,
                          !.sector_to_idx = SectorToIdx(sector_codes),
                          !.A = InitialA(Cardinality(DOMAIN ns.sector_info)),
                          !.process_to_sector = InitialProcessToSector,
                          !.rows_done = 0]
  /\ pc' = "step3_loop"
  /\ UNCHANGED <<multipliers_json, a_matrix_csv, b_matrix_csv, first_run, calcVars>>

\* One pass of the loop over a_matrix_df.iterrows(); A[i, j] += amount
\* raises TypeError when the amount is a str.
Step3_Row ==
  /\ pc = "step3_loop"
  /\ ns.rows_done < Len(ns.a_matrix_df)
  /\ LET row == ns.a_matrix_df[ns.rows_done + 1]
         st == AMatrixLoop(<<row>>, ns.sector_to_idx,
                           [A |-> ns.A, process_to_sector |-> ns.process_to_sector])
     IN  IF /\ ~IsNumber(row.Amount)
            /\ StripUS(row.FlowID) \in DOMAIN ns.sector_to_idx
            /\ st.process_to_sector[row.ProcessID] \in DOMAIN ns.sector_to_idx
           THEN /\ pc' = "failed"
                /\ ns' = Raised("TypeError")
           ELSE /\ pc' = "step3_loop"
                /\ ns' = [ns EXCEPT !.A = st.A,
                                    !.process_to_sector = st.process_to_sector,
                                    !.rows_done = @ + 1]
  /\ UNCHANGED <<multipliers_json, a_matrix_csv, b_matrix_csv, first_run, calcVars>>

\* The loop is over: the report on A (A.max() raises ValueError on a 0 x 0
\* matrix).
Step3_End ==
  /\ pc = "step3_loop"
  /\ ns.rows_done = Len(ns.a_matrix_df)
  /\ IF Len(ns.sector_codes) = 0
       THEN /\ pc' = "failed"
            /\ ns' = Raised("ValueError")
       ELSE /\ pc' = "step4"
            /\ ns' = ns
  /\ UNCHANGED <<multipliers_json, a_matrix_csv, b_matrix_csv, first_run, calcVars>>

NextALoop ==
  \/ StartBuild
  \/ Step2_SectorList
  \/ Step3_Begin
  \/ Step3_Row
  \/ Step3_End
  \/ Step4_Leontief
  \/ Step5_AggregateFlows
  \/ Step6_Multipliers
  \/ Step7_OpenExport
  \/ WriteChunk
  \/ CloseExport
  \/ Crash

SpecALoop == InitBuild /\ [][NextALoop]_vars

\* The row the loop has just passed.
RowJustDone == ns'.a_matrix_df[ns'.rows_done]

\* C23: while the script runs, no step changes or removes an entry of
\* process_to_sector; the row the loop passes gives its process the row's
\* producing sector only when the process has no entry yet - so the entry
\* is that of the first row naming the process - and the row's amount is
\* added to the row of A of that entry's sector.
C23_FirstSectorKept ==
  [][(~AtShell /\ pc' # "failed") =>
       /\ \A p \in DOMAIN ns.process_to_sector :
            /\ p \in DOMAIN ns'.process_to_sector
            /\ ns'.process_to_sector[p] = ns.process_to_sector[p]
       /\ (pc = "step3_loop" /\ ns'.rows_done = ns.rows_done + 1) =>
            LET p == RowJustDone.ProcessID
                first == ResolvedInA(p)
                j == ns.sector_to_idx[RowJustDone.FlowID.base]
            IN  /\ ns'.process_to_sector[p] = first
                /\ first \in DOMAIN ns.sector_to_idx
                /\ ns'.A = [ns.A EXCEPT ![<<ns.sector_to_idx[first], j>>] =
                                          RAdd(@, RowJustDone.Amount)]]_vars

\* The loop has passed two rows of one process that name different
\* producing sectors: the process has the first row's sector, and the second
\* row's amount stands on that sector's row of A.
C23_Witness ==
  /\ pc = "step3_loop"
  /\ ns.rows_done = 2
  /\ a_matrix_csv[1].ProcessID = a_matrix_csv[2].ProcessID
  /\ a_matrix_csv[1].FlowID.base # a_matrix_csv[2].FlowID.base
  /\ ns.process_to_sector[a_matrix_csv[1].ProcessID] = a_matrix_csv[1].FlowID.base
  /\ ns.A[<<ns.sector_to_idx[a_matrix_csv[1].FlowID.base],
            ns.sector_to_idx[a_matrix_csv[2].FlowID.base]>>] = a_matrix_csv[2].Amount

\* ------------------------------------ C24: no flow is counted twice
\* What one flow record is worth in a category: a gas its kg times its
\* GWP in GHG, fresh water its gallons in Water, and nothing elsewhere.
WorthIn(row, cat) ==
  IF cat = "GHG"
    THEN IF row.Flowable = "Carbon dioxide" THEN row.Amount
         ELSE IF row.Flowable = "Methane" THEN RMul(RInt(28), row.Amount)
         ELSE IF row.Flowable = "Nitrous oxide" THEN RMul(RInt(265), row.Amount)
         ELSE RZero
  ELSE IF cat = "Water" /\ row.Flowable = "Water, fresh"
    THEN IF row.Unit = "m3" THEN RMul(Rat(264172, 1000), row.Amount)
         ELSE row.Amount
  ELSE RZero

\* The flow records of the processes booked on column j.
FlowRowsOfColumn(j) ==
  {k \in DOMAIN b_matrix_csv :
     /\ b_matrix_csv[k].ProcessID \in TxProcesses
     /\ ResolvedInA(b_matrix_csv[k].ProcessID) \in DOMAIN ns.sector_to_idx
     /\ ns.sector_to_idx[ResolvedInA(b_matrix_csv[k].ProcessID)] = j}

RECURSIVE SumOfWorth(_, _)
SumOfWorth(K, cat) ==
  IF K = {} THEN RZero
  ELSE LET k == CHOOSE x \in K : TRUE
       IN  RAdd(WorthIn(b_matrix_csv[k], cat), SumOfWorth(K \ {k}, cat))

\* C24: once B is built, each cell of B is the sum, over the flow records
\* of the column's processes, of what the record is worth in the cell's
\* category: every record counts once, in one category, with its GWP
\* weight applied once, and the per-gas sums are not added a second time.
C24_NoDoubleCounting ==
  HasB =>
    \A cj \in DOMAIN ns.B :
      ns.B[cj] = SumOfWorth(FlowRowsOfColumn(cj[2]), categories[cj[1] + 1])

\* B is built from flow records holding two gases of one process, and the
\* GHG of its column is not zero.
C24_Witness ==
  /\ HasB
  /\ \E i, k \in DOMAIN b_matrix_csv :
       /\ b_matrix_csv[i].ProcessID = b_matrix_csv[k].ProcessID
       /\ b_matrix_csv[i].Flowable = "Methane"
       /\ b_matrix_csv[k].Flowable \in {"Carbon dioxide", "Nitrous oxide"}
       /\ b_matrix_csv[i].ProcessID \in TxProcesses
       /\ ~RIsZero(ns.B[<<0, ns.sector_to_idx[ResolvedInA(b_matrix_csv[i].ProcessID)]>>])

\* ------------------------------ C25: the intensity bands come first
IsConstructionCode(code) == Len(code) >= 2 /\ code[1] = "2" /\ code[2] = "3"

\* C25: whatever the code and the name, a call with intensity above 12000
\* returns 1.35 and one with intensity above 8000 and up to 12000 (12000
\* included) returns 1.45; with intensity 8000 or less neither band
\* applies, so that a construction code then gets 2.10.
C25_BandsTakePrecedence ==
  io_call.called =>
    LET x == io_call.direct_intensity
        m == io_call.returned.multiplier
    IN  /\ x > 12000 => m = Rat(135, 100)
        /\ (x > 8000 /\ x <= 12000) => m = Rat(145, 100)
        /\ x <= 8000 => m \notin {Rat(135, 100), Rat(145, 100)}
        /\ (x <= 8000 /\ IsConstructionCode(io_call.naics_code)) => m = Rat(21, 10)

\* A construction code with intensity exactly 12000 has got 1.45, not 2.10.
C25_Witness ==
  /\ io_call.called
  /\ IsConstructionCode(io_call.naics_code)
  /\ io_call.direct_intensity = 12000
  /\ io_call.returned.multiplier = Rat(145, 100)

\* ------------------------------------------- the API and its singleton
\* multipliers.json where neither data directory has one.
NoFile == <<[kind |-> "no such file"]>>

\* _calculator_instance = None
NoInstance == [is_none |-> TRUE]

\* The API process: the module global _calculator_instance, whether the
\* startup event has run, and how often _load_multipliers has been entered.
NotStarted == [instance |-> NoInstance, started |-> FALSE, loads |-> 0]

\* DIOCalculator(): FileNotFoundError without a file, JSONDecodeError from
\* json.load on an incomplete one, otherwise the instance with its dicts.
Construct(file, id) ==
  IF file = NoFile THEN [raised |-> "FileNotFoundError"]
  ELSE IF ~IsCompleteJson(file) THEN [raised |-> "JSONDecodeError"]
  ELSE LET c == LoadMultipliers(ParseJson(file))
       IN  [raised |-> "none",
            instance |-> [is_none |-> FALSE, id |-> id,
                          multipliers |-> c.multipliers,
                          sector_names |-> c.sector_names,
                          units |-> c.units]]

\* A variant of get_calculator without the test for None: every call
\* constructs.
get_calculator_AlwaysNew(process, file) ==
  LET c == Construct(file, process.loads + 1)
  IN  IF c.raised # "none"
        THEN [process |-> [process EXCEPT !.loads = @ + 1], raised |-> c.raised]
        ELSE [process |-> [process EXCEPT !.loads = @ + 1,
                                          !.instance = c.instance],
              raised |-> "none", returned |-> c.instance]

\* get_calculator: the process afterwards, and what the caller gets.  The
\* global is assigned only after DIOCalculator() has returned.
get_calculator(process, file) ==
  IF ~process.instance.is_none
    THEN [process |-> process, raised |-> "none", returned |-> process.instance]
  ELSE LET c == Construct(file, process.loads + 1)
       IN  IF c.raised # "none"
             THEN [process |-> [process EXCEPT !.loads = @ + 1],
                   raised |-> c.raised]
             ELSE [process |-> [process EXCEPT !.loads = @ + 1,
                                               !.instance = c.instance],
                   raised |-> "none", returned |-> c.instance]

\* The process may still read the file (the state space is cut there).
MayLoad == calculator.loads < MaxLoads

\* startup_event: get_calculator() in try/except, a line printed either way.
Startup ==
  /\ ~calculator.started
  /\ LET g == get_calculator(calculator, multipliers_json)
     IN  /\ calculator' = [g.process EXCEPT !.started = TRUE]
         /\ request' = [called |-> TRUE, endpoint |-> "startup"]
         /\ result' =
              IF g.raised = "none"
                THEN [status |-> "started", instance_id |-> g.returned.id,
                      instance |-> g.returned,
                      printed |-> "Calculator initialized"]
                ELSE [status |-> "started", raised |-> g.raised,
                      printed |-> "Failed to initialize calculator"]
  /\ UNCHANGED <<multipliers_json, io_call, calls, buildVars>>

\* {sector.code: sector.amount for sector in request.sectors}: one item per
\* code, placed where the code first appears, holding its last amount.
SpendingDict(sectors) ==
  LET firsts == {i \in DOMAIN sectors :
                   \A j \in 1..(i - 1) : sectors[j].code # sectors[i].code}
      lastOf(code) == CHOOSE i \in DOMAIN sectors :
                        /\ sectors[i].code = code
                        /\ \A j \in (i + 1)..Len(sectors) : sectors[j].code # code
      RECURSIVE Build(_)
      Build(i) ==
        IF i > Len(sectors) THEN <<>>
        ELSE IF i \in firsts
          THEN <<[code |-> sectors[i].code,
                  amount |-> sectors[lastOf(sectors[i].code)].amount]>>
               \o Build(i + 1)
        ELSE Build(i + 1)
  IN  Build(1)

\* POST /calculate: calculate_impacts.  An exception of get_calculator is
\* not caught (the framework answers 500); one of calculate is turned into
\* HTTPException(500, 'Calculation failed: ...').
CalculateImpacts(sectors, impact_categories) ==
  /\ calculator.started
  /\ ~request.called
  /\ ~calculator.instance.is_none \/ MayLoad
  /\ LET g == get_calculator(calculator, multipliers_json)
         sector_spending == SpendingDict(sectors)
     IN  /\ calculator' = g.process
         /\ request' = [called |-> TRUE, endpoint |-> "calculate",
                        sectors |-> sectors,
                        impact_categories |-> impact_categories]
         /\ result' =
              IF g.raised # "none"
                THEN [status |-> "error", http |-> 500, raised |-> g.raised,
                      detail |-> "Internal Server Error"]
                ELSE LET r == calculate(g.returned, sector_spending,
                                        impact_categories)
                     IN  IF r.status = "error"
                           THEN [status |-> "error", http |-> 500,
                                 raised |-> r.error,
                                 instance_id |-> g.returned.id,
                                 detail |-> "Calculation failed"]
                           ELSE [status |-> "ok", http |-> 200, body |-> r,
                                 instance_id |-> g.returned.id,
                                 instance |-> g.returned]
  /\ UNCHANGED <<multipliers_json, io_call, calls, buildVars>>

\* DIOCalculator._is_defense_sector: its own keyword list, on the name.
CalculatorDefenseKeywords ==
  {<<"a", "i", "r", "c", "r", "a", "f", "t">>,
   <<"s", "h", "i", "p">>,
   <<"m", "i", "s", "s", "i", "l", "e">>,
   <<"w", "e", "a", "p", "o", "n">>,
   <<"m", "i", "l", "i", "t", "a", "r", "y">>,
   <<"d", "e", "f", "e", "n", "s", "e">>,
   <<"o", "r", "d", "n", "a", "n", "c", "e">>,
   <<"a", "r", "m", "o", "r", "e", "d">>,
   <<"g", "u", "i", "d", "e", "d">>,
   <<"a", "e", "r", "o", "s", "p", "a", "c", "e">>,
   <<"a", "m", "m", "u", "n", "i", "t", "i", "o", "n">>}
_is_defense_sector(name) ==
  \E keyword \in CalculatorDefenseKeywords : Contains(Lower(Spell(name)), keyword)

\* DIOCalculator.get_available_sectors: one dict per sector, sorted by code.
get_available_sectors(instance) ==
  LET codes == Sorted(DOMAIN instance.sector_names)
  IN  [k \in DOMAIN codes |->
         [code |-> codes[k], name |-> instance.sector_names[codes[k]],
          is_defense_relevant |-> _is_defense_sector(instance.sector_names[codes[k]])]]

\* The query parameter: absent, or a str.
NoQuery == [is_none |-> TRUE, value |-> <<>>]
Queries ==
  {NoQuery,
   [is_none |-> FALSE, value |-> <<"S", "h", "i", "p">>],
   [is_none |-> FALSE, value |-> <<"1", "1">>]}

\* GET /sectors: list_sectors.  An empty query counts as none.
ListSectors(defense_only, query) ==
  /\ calculator.started
  /\ ~request.called
  /\ ~calculator.instance.is_none \/ MayLoad
  /\ LET g == get_calculator(calculator, multipliers_json)
         byFlag(s) == s.is_defense_relevant
         byQuery(s) == \/ Contains(Lower(Spell(s.name)), Lower(query.value))
                       \/ Contains(CodeStr(s.code), Lower(query.value))
     IN  /\ calculator' = g.process
         /\ request' = [called |-> TRUE, endpoint |-> "sectors",
                        defense_only |-> defense_only, query |-> query]
         /\ result' =
              IF g.raised # "none"
                THEN [status |-> "error", http |-> 500, raised |-> g.raised,
                      detail |-> "Internal Server Error"]
                ELSE LET all_sectors == get_available_sectors(g.returned)
                         f1 == IF defense_only THEN SelectSeq(all_sectors, byFlag)
                               ELSE all_sectors
                         f2 == IF ~query.is_none /\ query.value # <<>>
                                 THEN SelectSeq(f1, byQuery) ELSE f1
                     IN  [status |-> "ok", http |-> 200,
                          body |-> [sectors |-> f2, total |-> Len(f2)],
                          instance_id |-> g.returned.id,
                          instance |-> g.returned]
  /\ UNCHANGED <<multipliers_json, io_call, calls, buildVars>>

\* What clients post: one sector, one sector named twice, an unknown code,
\* sectors of the table the build writes.
ApiSectorLists ==
  {<<[code |-> 336411, amount |-> 500]>>,
   <<[code |-> 336411, amount |-> 500], [code |-> 336411, amount |-> 3000]>>,
   <<[code |-> 999999, amount |-> 500]>>,
   <<[code |-> 111, amount |-> 500], [code |-> 222, amount |-> 500],
     [code |-> 111, amount |-> 3000]>>}
ApiCategoryArgs ==
  {[is_none |-> TRUE, value |-> <<>>],
   [is_none |-> FALSE, value |-> <<>>],
   [is_none |-> FALSE, value |-> <<"Water", "GHG">>],
   [is_none |-> FALSE, value |-> <<"Land", "Energy", "Land">>],
   [is_none |-> FALSE, value |-> <<"Noise">>],
   [is_none |-> FALSE, value |-> <<"GHG", "Noise">>]}

\* The server is about to start; multipliers.json is the demo table or is
\* not there yet, and a build from the CSV files may run at any time.
InitApi ==
  /\ multipliers_json \in {NoFile, Serialize(DemoTable)}
  /\ calculator = NotStarted
  /\ request = NoRequest
  /\ result = [status |-> "none"]
  /\ a_matrix_csv = ScenarioTransactions
  /\ b_matrix_csv = ScenarioFlows
  /\ pc = "idle"
  /\ ns = EmptyNs
  /\ first_run = NoFirstRun
  /\ io_call = NoIoCall
  /\ calls = NoCalls

NextApi ==
  \/ NextPython
  \/ Startup
  \/ \E sectors \in ApiSectorLists, ic \in ApiCategoryArgs :
       CalculateImpacts(sectors, ic)
  \/ \E defense_only \in BOOLEAN, query \in Queries :
       ListSectors(defense_only, query)
  \/ Return

SpecApi == InitApi /\ [][NextApi]_vars

\* --------------------------------------------- C26: the lazy singleton
\* A step in which the startup event or an endpoint calls get_calculator.
CallsGetCalculator == ~request.called /\ request'.called

\* C26: once an instance is stored, no step replaces it or reads the file
\* again, and every call is answered with that instance; a call made while
\* none is stored attempts the construction; the instance is stored only
\* when the file is complete, and is then the whole table of the file; and
\* a call whose construction raised leaves no instance stored.
C26_LazySingleton ==
  [][/\ ~calculator.instance.is_none =>
          /\ calculator'.instance = calculator.instance
          /\ calculator'.loads = calculator.loads
          /\ CallsGetCalculator =>
               /\ result'.instance_id = calculator.instance.id
               /\ "instance" \in DOMAIN result' =>
                    result'.instance = calculator.instance
     /\ (calculator.instance.is_none /\ CallsGetCalculator) =>
          /\ calculator'.loads = calculator.loads + 1
          /\ IF IsCompleteJson(multipliers_json) /\ multipliers_json # NoFile
               THEN /\ ~calculator'.instance.is_none
                    /\ calculator'.instance.multipliers =
                         LoadMultipliers(ParseJson(multipliers_json)).multipliers
                    /\ calculator'.instance.sector_names =
                         LoadMultipliers(ParseJson(multipliers_json)).sector_names
                    /\ result'.instance_id = calculator'.instance.id
                    /\ "instance" \in DOMAIN result' =>
                         result'.instance = calculator'.instance
               ELSE /\ calculator'.instance.is_none
                    /\ "instance_id" \notin DOMAIN result'
                    /\ result'.raised \in {"FileNotFoundError", "JSONDecodeError"}
     /\ ~CallsGetCalculator => calculator' = calculator]_vars

\* A first construction raised, the second one succeeded, and a later call
\* was answered with that instance while multipliers.json was being
\* rewritten and could not have been loaded.
C26_Witness ==
  /\ calculator.loads = 2
  /\ ~calculator.instance.is_none
  /\ calculator.instance.id = 2
  /\ request.called
  /\ request.endpoint # "startup"
  /\ result.status = "ok"
  /\ result.instance = calculator.instance
  /\ ~IsCompleteJson(multipliers_json)

\* ----------------------------- C27: the spending of a repeated sector
AnsweredCalculate ==
  /\ request.called
  /\ request.endpoint = "calculate"
  /\ result.status = "ok"

\* The amounts a request lists for a code, added up.
RECURSIVE RequestedFor(_, _)
RequestedFor(sectors, code) ==
  IF sectors = <<>> THEN 0
  ELSE (IF sectors[1].code = code THEN sectors[1].amount ELSE 0)
       + RequestedFor(Tail(sectors), code)

\* C27: the total_spending of an answer is the sum of the amounts of all
\* sector entries of the request, and the 'spending' of each sector of the
\* breakdown is the sum of the request's amounts for that code - also when
\* a code is listed more than once.  (The endpoint first makes a dict of
\* the list, which keeps only the last amount of a code.)
C27_SpendingCountsEveryEntry ==
  AnsweredCalculate =>
    /\ result.body.total_spending = SumAmounts(request.sectors)
    /\ \A code \in DOMAIN result.body.sector_breakdown :
         result.body.sector_breakdown[code].spending =
           RequestedFor(request.sectors, code)

\* --------------------------------- C28: the categories of a request
FourCategories == {"GHG", "Energy", "Water", "Land"}
CategoryTitle ==
  [GHG |-> "Greenhouse Gas Emissions", Energy |-> "Energy Use",
   Water |-> "Water Consumption", Land |-> "Land Use"]

\* C28: a call of the calculate endpoint that got its calculator and names
\* a list of categories among the four is answered with one impacts entry
\* per entry of the list, in the order of the list; one that names any
\* other category is answered with HTTP 500 and no result, the calculator
\* being left as it was - whatever the spending codes.
C28_OnlyTheFourCategories ==
  [][(/\ ~request.called
      /\ request'.called
      /\ request'.endpoint = "calculate"
      /\ ~request'.impact_categories.is_none
      /\ "instance_id" \in DOMAIN result') =>
       LET asked == request'.impact_categories.value
       IN  IF \A i \in DOMAIN asked : asked[i] \in FourCategories
             THEN /\ result'.status = "ok"
                  /\ result'.http = 200
                  /\ CategoriesOf(result'.body.impacts) =
                       [i \in DOMAIN asked |-> CategoryTitle[asked[i]]]
             ELSE /\ result'.status = "error"
                  /\ result'.http = 500
                  /\ "body" \notin DOMAIN result'
                  /\ ~calculator.instance.is_none => calculator' = calculator]_vars

\* A request for GHG and an unknown category, on a code the table does not
\* have, has been answered with HTTP 500.
C28_Witness ==
  /\ request.called
  /\ request.endpoint = "calculate"
  /\ request.sectors = <<[code |-> 999999, amount |-> 500]>>
  /\ request.impact_categories.value = <<"GHG", "Noise">>
  /\ result.http = 500
  /\ result.raised = "KeyError"
  /\ ~calculator.instance.is_none

\* --------------------------------- C29: the defense flag of a sector
\* C29: every sector the sectors endpoint lists carries the flag the
\* multiplier build gave that sector.
C29_FlagIsTheBuildsFlag ==
  (/\ request.called
   /\ request.endpoint = "sectors"
   /\ result.status = "ok") =>
    \A k \in DOMAIN result.body.sectors :
      LET s == result.body.sectors[k]
      IN  s.is_defense_relevant = is_defense_relevant(s.code, s.name)

\* --------------------------------- C30: what is added to Water
\* C30: once the flows are aggregated, the Water of every process is made
\* of its fresh-water rows in m3 (converted) and in gal only: a row in any
\* other unit adds nothing to it.
C30_OnlyGallonsAdded ==
  HasBProcess =>
    \A p \in {b_matrix_csv[i].ProcessID : i \in DOMAIN b_matrix_csv} :
      WaterOf(p) =
        RAdd(RMul(SumRat(WaterRowsIn(p, "m3"), FlowAmounts), GallonsPerM3),
             SumRat(WaterRowsIn(p, "gal"), FlowAmounts))

====
